---- MODULE Spec2Model ----
(***************************************************************************)
(* Model of the Komga RAG retrieval pipeline: the processing cache of      *)
(* RAGService (rag/core/rag_service.py), the document processor            *)
(* (rag/processing/document_processor.py) and the vector store             *)
(* (rag/retrieval/vector_store.py).                                        *)
(*                                                                         *)
(* Everything the code cannot decide by itself (a failing embedding, a     *)
(* failing store write, a failing cache read, write or delete) is an       *)
(* input of the action, chosen by the environment.                         *)
(***************************************************************************)
EXTENDS Integers, Sequences, FiniteSets, TLC

VARIABLES fs, use_cache, cache, store, nextId, issued, last, budget, retriever, calls

vars == <<fs, use_cache, cache, store, nextId, issued, last, budget, retriever, calls>>

(***************************************************************************)
(* Bounds of the exploration.                                              *)
(***************************************************************************)
\* mtime is counted in ticks; TicksPerSecond ticks make one second
TicksPerSecond == 2
\* largest mtime (in ticks) a file is given
MaxMtime == 2
\* number of raw chunks the chunker yields for the content "doc"
MaxChunks == 2
\* number of service calls (process_document, clear_cache) of one behaviour
MaxCalls == 3
\* number of uuids drawn in one behaviour of the service
MaxIds == 6
\* largest number of documents handed to one direct add_documents call
MaxDocs == 10
\* a batch size small enough to split MaxDocs documents into three batches
SmallBatch == 4
\* number of direct add_documents calls of one behaviour
MaxAdds == 2
\* number of uuids drawn in one behaviour of direct add_documents calls
MaxDrawn == 12

\* the documents of a store that is searched, at most
MaxStored == 2

\* the tokens of a text that is split into sentences, at most
MaxTokens == 3

\* the sentences of a chunked text, the words of a sentence, the chunk_size
\* and the overlap of a _chunk_content call, at most
MaxSentences == 3

MaxSentenceWords == 3

MaxChunkSize == 4

MaxOverlap == 3

\* the callers whose process_document calls may run at the same time
MaxCallers == 2

\* add_documents(documents, batch_size=100)
DefaultBatchSize == 100

(***************************************************************************)
(* Small helpers.                                                          *)
(***************************************************************************)
Range(s) == {s[i] : i \in DOMAIN s}

RECURSIVE SetToSortedSeq(_)
\* the elements of a finite set of integers in increasing order
SetToSortedSeq(S) ==
    IF S = {} THEN <<>>
    ELSE LET m == CHOOSE x \in S : \A y \in S : x <= y
         IN  <<m>> \o SetToSortedSeq(S \ {m})

(***************************************************************************)
(* Files.  A path is a directory, a stem and an extension; a file has a    *)
(* content and an mtime.  st_size is a function of the content.            *)
(***************************************************************************)
Path(d, stem, ext) == [dir |-> d, stem |-> stem, ext |-> ext]

\* Path.name
FileName(p) == <<p.stem, p.ext>>

NoFile == [exists |-> FALSE, content |-> "empty", mtime |-> 0]

File(c, t) == [exists |-> TRUE, content |-> c, mtime |-> t]

\* stat().st_size of a file with the content c
Size(c) == CASE c = "empty" -> 0 [] c = "blank" -> 1 [] OTHER -> 2

\* int(stat().st_mtime): the mtime truncated to whole seconds
IntMtime(f) == f.mtime \div TicksPerSecond

(***************************************************************************)
(* Caller metadata: None, or a dict given by its items <<key, value>> in   *)
(* insertion order.  Keys are numbered so that they can be sorted; a value *)
(* is a string, a tuple, or the list with the elements of that tuple.      *)
(***************************************************************************)
NoneMeta == [isNone |-> TRUE, items |-> <<>>]

\* the dict whose keys (in insertion order) all carry a value of kind v
DictOfKind(keys, v) ==
    [isNone |-> FALSE, items |-> [i \in DOMAIN keys |-> <<keys[i], v>>]]

\* a dict of string values
Dict(keys) == DictOfKind(keys, "str")

\* `metadata or {}`: None and the empty dict both give {}
OrEmpty(m) == IF m.isNone \/ m.items = <<>> THEN Dict(<<>>) ELSE m

\* Python's == on dicts ignores the insertion order and compares the values
\* (a tuple is not equal to a list)
DictEq(m1, m2) == Range(m1.items) = Range(m2.items)

\* the JSON text of a value: json writes a tuple as the array it writes for
\* the list, and json.load reads an array as a list
JsonValue(v) == IF v = "tuple" THEN "list" ELSE v

\* the JSON form of the items of a dict
JsonItems(items) == {<<it[1], JsonValue(it[2])>> : it \in items}

\* json.dumps(d, sort_keys=True): the items in key order
json_dumps_sorted(d) ==
    LET keys == SetToSortedSeq({it[1] : it \in Range(d.items)})
        item(k) == CHOOSE it \in Range(d.items) : it[1] = k
    IN  [i \in 1 .. Len(keys) |-> <<keys[i], JsonValue(item(keys[i])[2])>>]

\* json.dumps(d): the items in insertion order
json_dumps_unsorted(d) ==
    [i \in DOMAIN d.items |-> <<d.items[i][1], JsonValue(d.items[i][2])>>]

\* a key that leaves the mtime out
generate_cache_key_no_mtime(p, f, metadata) ==
    <<FileName(p), Size(f.content), 0, json_dumps_sorted(OrEmpty(metadata))>>

\* a key built from the whole path and the content of the file
generate_cache_key_path_and_content(p, f, metadata) ==
    <<p, f.content, IntMtime(f), json_dumps_sorted(OrEmpty(metadata))>>

\* a key built without sort_keys
generate_cache_key_unsorted(p, f, metadata) ==
    <<FileName(p), Size(f.content), IntMtime(f), json_dumps_unsorted(OrEmpty(metadata))>>

\* RAGService._generate_cache_key: md5 of the joined key parts; the digest
\* is modelled by the tuple of the parts (no two tuples collide)
generate_cache_key(p, f, metadata) ==
    <<FileName(p), Size(f.content), IntMtime(f), json_dumps_sorted(OrEmpty(metadata))>>

(***************************************************************************)
(* DocumentProcessor.                                                      *)
(***************************************************************************)
SupportedExtensions == {".pdf", ".epub", ".txt", ".md", ".markdown"}

\* DocumentProcessor._get_file_metadata
get_file_metadata(p, f) ==
    [file_id |-> p, file_name |-> FileName(p), file_extension |-> p.ext,
     file_size |-> Size(f.content), modified |-> f.mtime]

NoFileMeta ==
    [file_id |-> Path("", "", ""), file_name |-> <<"", "">>, file_extension |-> "",
     file_size |-> 0, modified |-> 0]

\* an extraction that accepts every extension
ExtractOkAnyExtension(p, f, readFails) == ~readFails /\ f.content # "empty"

\* DocumentProcessor._extract_content followed by the `if not content` test:
\* TRUE when a text was extracted, FALSE when the extraction raised
ExtractOk(p, f, readFails) ==
    /\ p.ext \in SupportedExtensions
    /\ ~readFails
    /\ f.content # "empty"

\* DocumentProcessor._chunk_content: the number of chunks of a content
\* ("doc" and "alt" are two texts of the same size; whitespace-only text
\* gives no chunk)
chunk_content(c) == IF c \in {"doc", "alt"} THEN MaxChunks ELSE 0

\* the keys 'position' and 'total_chunks' of a chunk's metadata, as keys of
\* a caller's dict
KeyPosition == 8

KeyTotalChunks == 9

\* the integer a metadata value is ("zero" is the int 0)
IntOf(v) == CASE v = "zero" -> 0

\* {**{key: own}, **(metadata or {})}[key]: the caller's value under the
\* key when the caller's dict has the key, the processor's own otherwise
MergedInt(metadata, key, own) ==
    IF \E it \in Range(metadata.items) : it[1] = key
    THEN IntOf((CHOOSE it \in Range(metadata.items) : it[1] = key)[2])
    ELSE own

\* the processed chunk at position i (0-based) of n raw chunks.  The
\* caller's metadata is merged last into the chunk's metadata, so its
\* 'position' and 'total_chunks' replace the processor's
ProcessedChunk(p, f, metadata, i, n) ==
    [text |-> <<f.content, i>>,
     metadata |-> [chunk_id |-> <<p, i>>,
                   position |-> MergedInt(metadata, KeyPosition, i),
                   total_chunks |-> MergedInt(metadata, KeyTotalChunks, n),
                   file |-> get_file_metadata(p, f), caller |-> Range(metadata.items)]]

NoResult ==
    [status |-> "none", error |-> FALSE, chunks |-> <<>>,
     metadata |-> [caller |-> {}, file_path |-> Path("", "", ""), file |-> NoFileMeta],
     document_ids |-> <<>>]

\* DocumentProcessor.process_document on an existing file.  readFails: the
\* extraction raises; embedded: the positions whose embedding succeeds
dp_process_document(p, f, metadata, readFails, embedded) ==
    IF ~ExtractOk(p, f, readFails)
    THEN [status |-> "failed", error |-> TRUE, chunks |-> <<>>,
          metadata |-> [caller |-> Range(metadata.items), file_path |-> p, file |-> NoFileMeta],
          document_ids |-> <<>>]
    ELSE LET n == chunk_content(f.content)
             pos == SetToSortedSeq(embedded \cap (0 .. n - 1))
             processed == [k \in 1 .. Len(pos) |-> ProcessedChunk(p, f, metadata, pos[k], n)]
         IN  [status |-> IF n > 0 /\ Len(processed) > 0 THEN "success" ELSE "partial",
              error |-> FALSE, chunks |-> processed,
              metadata |-> [caller |-> Range(metadata.items), file_path |-> Path("", "", ""),
                            file |-> get_file_metadata(p, f)],
              document_ids |-> <<>>]

(***************************************************************************)
(* DocumentProcessor._chunk_content over the sentences the sentence         *)
(* segmenter gives.  A sentence is the sequence of its words (what           *)
(* sentence.split() gives); a word is any value.  current_chunk is a list  *)
(* of elements, each a sequence of words: a sentence, or one word of the   *)
(* overlap.  The text of a chunk is modelled by the sequence of its words. *)
(***************************************************************************)
\* _chunk_content(content, chunk_size=1000, overlap=200)
DefaultChunkSize == 1000

DefaultOverlap == 200

RECURSIVE Flatten(_)
\* ' '.join(elements).split(): the words of the elements, in order
Flatten(elements) ==
    IF elements = <<>> THEN <<>> ELSE Head(elements) \o Flatten(Tail(elements))

\* the slice list[-n:]: the last n elements, all of them when n is 0 (-0 is
\* 0) or not smaller than the length
LastElements(list, n) ==
    IF n = 0 \/ n >= Len(list) THEN list ELSE SubSeq(list, Len(list) - n + 1, Len(list))

\* lines 212-213: ' '.join(current_chunk[-overlap:]).split(), a list with
\* one element for every word of the last `overlap` elements
overlap_words(current_chunk, overlap) ==
    LET words == Flatten(LastElements(current_chunk, overlap))
    IN  [k \in DOMAIN words |-> <<words[k]>>]

\* a chunk whose word_count counts the elements of current_chunk
ChunkOfCountingElements(current_chunk, current_length) ==
    [text |-> Flatten(current_chunk),
     metadata |-> [chunk_type |-> "text", word_count |-> Len(current_chunk)]]

\* the chunk appended at lines 203-209 and 221-227
ChunkOf(current_chunk, current_length) ==
    [text |-> Flatten(current_chunk),
     metadata |-> [chunk_type |-> "text", word_count |-> current_length]]

\* the state before the loop, lines 194-196
ChunkerStart == [chunks |-> <<>>, current_chunk |-> <<>>, current_length |-> 0]

\* a loop body that does not append the sentence which closed a chunk
AddSentenceDropping(st, sentence, chunk_size, overlap) ==
    LET close == st.current_chunk # <<>> /\ st.current_length + Len(sentence) > chunk_size
        seeded == overlap_words(st.current_chunk, overlap)
    IN  IF close
        THEN [chunks |-> Append(st.chunks, ChunkOf(st.current_chunk, st.current_length)),
              current_chunk |-> seeded, current_length |-> Len(seeded)]
        ELSE [chunks |-> st.chunks, current_chunk |-> Append(st.current_chunk, sentence),
              current_length |-> st.current_length + Len(sentence)]

\* the loop body, lines 199-217, for one sentence
AddSentence(st, sentence, chunk_size, overlap) ==
    LET close == st.current_chunk # <<>> /\ st.current_length + Len(sentence) > chunk_size
        seeded == IF close THEN overlap_words(st.current_chunk, overlap)
                  ELSE st.current_chunk
        length == IF close THEN Len(seeded) ELSE st.current_length
    IN  [chunks |-> IF close
                    THEN Append(st.chunks, ChunkOf(st.current_chunk, st.current_length))
                    ELSE st.chunks,
         current_chunk |-> Append(seeded, sentence),
         current_length |-> length + Len(sentence)]

RECURSIVE ChunkLoop(_, _, _, _)
\* the loop of lines 198-217 over the sentences
ChunkLoop(st, sentences, chunk_size, overlap) ==
    IF sentences = <<>> THEN st
    ELSE ChunkLoop(AddSentence(st, Head(sentences), chunk_size, overlap), Tail(sentences),
                   chunk_size, overlap)

\* DocumentProcessor._chunk_content on a content with these sentences (none
\* for a content that is empty or whitespace)
chunk_sentences(sentences, chunk_size, overlap) ==
    LET st == ChunkLoop(ChunkerStart, sentences, chunk_size, overlap)
    IN  IF st.current_chunk # <<>>
        THEN Append(st.chunks, ChunkOf(st.current_chunk, st.current_length))
        ELSE st.chunks

(***************************************************************************)
(* TextUtils.split_into_sentences.  A text is the sequence of its          *)
(* characters, a word the sequence of the characters between whitespace,   *)
(* a sentence the sequence of its words.                                   *)
(***************************************************************************)
UpperLetters == <<"A", "B", "C", "D", "E", "F", "G", "H", "I", "J", "K", "L", "M">> \o
                <<"N", "O", "P", "Q", "R", "S", "T", "U", "V", "W", "X", "Y", "Z">>

LowerLetters == <<"a", "b", "c", "d", "e", "f", "g", "h", "i", "j", "k", "l", "m">> \o
                <<"n", "o", "p", "q", "r", "s", "t", "u", "v", "w", "x", "y", "z">>

\* str.islower() of one character
IsLower(c) == c \in Range(LowerLetters)

\* str.lower() of one character and of a word
LowerChar(c) ==
    IF c \in Range(UpperLetters)
    THEN LowerLetters[CHOOSE i \in DOMAIN UpperLetters : UpperLetters[i] = c]
    ELSE c

Lower(word) == [i \in DOMAIN word |-> LowerChar(word[i])]

\* the characters '.!?' of lines 153 and 163
SentencePunctuation == {".", "!", "?"}

\* line 147: the abbreviations
abbreviations ==
    {<<"m", "r">>, <<"m", "r", "s">>, <<"m", "s">>,
     <<"d", "r">>, <<"p", "r", "o", "f">>, <<"v", "s">>,
     <<"e", ".", "g">>, <<"i", ".", "e">>, <<"e", "t", "c">>,
     <<"j", "r">>, <<"s", "r">>, <<"n", "o">>}

RECURSIVE ReplaceNewlines(_)
\* line 150: text.replace('\n', ' ').replace('\r', '')
ReplaceNewlines(text) ==
    IF text = <<>> THEN <<>>
    ELSE (CASE Head(text) = "\n" -> <<" ">>
            [] Head(text) = "\r" -> <<>>
            [] OTHER -> <<Head(text)>>) \o ReplaceNewlines(Tail(text))

RECURSIVE AddSpaces(_)
\* line 153: re.sub(r'([.!?])([^\s])', r'\1 \2', text), matching from the
\* left without overlap
AddSpaces(text) ==
    IF Len(text) < 2 THEN text
    ELSE IF text[1] \in SentencePunctuation /\ text[2] # " "
    THEN <<text[1], " ", text[2]>> \o AddSpaces(SubSeq(text, 3, Len(text)))
    ELSE <<text[1]>> \o AddSpaces(Tail(text))

RECURSIVE SplitWords(_, _)
\* text.split(): the words between the spaces; current is the word begun
SplitWords(text, current) ==
    IF text = <<>> THEN (IF current = <<>> THEN <<>> ELSE <<current>>)
    ELSE IF Head(text) = " "
    THEN (IF current = <<>> THEN <<>> ELSE <<current>>) \o SplitWords(Tail(text), <<>>)
    ELSE SplitWords(Tail(text), Append(current, Head(text)))

\* lines 165-166: the word is taken for an abbreviation
IsAbbreviation(word) ==
    \/ Lower(word) \in abbreviations
    \/ Len(word) > 1 /\ IsLower(word[1]) /\ word[Len(word)] = "."

RECURSIVE SentenceLoop(_, _, _)
\* lines 159-179: the loop over the words and the remaining text
SentenceLoop(words, current, sentences) ==
    IF words = <<>>
    THEN (IF current = <<>> THEN sentences ELSE Append(sentences, current))
    ELSE LET word == Head(words)
             now == Append(current, word)
         IN  IF word[Len(word)] \in SentencePunctuation /\ ~IsAbbreviation(word)
             THEN SentenceLoop(Tail(words), <<>>, Append(sentences, now))
             ELSE SentenceLoop(Tail(words), now, sentences)

\* the words the loop of split_into_sentences runs over
words_of(text) == SplitWords(AddSpaces(ReplaceNewlines(text)), <<>>)

\* TextUtils.split_into_sentences
split_into_sentences(text) ==
    IF text = <<>> THEN <<>> ELSE SentenceLoop(words_of(text), <<>>, <<>>)

(***************************************************************************)
(* VectorStore.  The collection is the sequence of its records in          *)
(* insertion order; a record is [id, text, metadata].                      *)
(***************************************************************************)
\* a document of a direct add_documents call: its text is its number, and it
\* carries an 'id' of the caller's, a key add_documents never reads
Document(i, kind) ==
    [id |-> <<"caller", i>>, text |-> i, metadata |-> [kind |-> kind, key |-> i]]

\* add_documents, lines 108-119: a metadata that is no dict becomes {} and
\* a value json.dumps rejects becomes its str()
CoerceMetadata(md) ==
    IF "kind" \notin DOMAIN md THEN md
    ELSE CASE md.kind = "not_dict" -> [kind |-> "empty", key |-> 0]
           [] md.kind = "unserializable" -> [kind |-> "stringified", key |-> md.key]
           [] OTHER -> md

\* an identity the caller supplies with a document: its 'id', or the
\* position of a chunk
CallerKey(doc) ==
    IF "id" \in DOMAIN doc THEN doc.id ELSE <<"caller", doc.metadata.position>>

\* an id taken from the document instead of a fresh uuid
NewIdFromCaller(k, doc) == CallerKey(doc)

\* str(uuid.uuid4()), line 103: the k-th uuid drawn; no two draws give the
\* same value and the document is not looked at
NewId(k, doc) == <<"uuid", k>>

\* the number of batches of n documents: len(range(0, n, batch_size))
NumBatches(n, batch_size) == (n + batch_size - 1) \div batch_size

\* the batch (1-based) of the document at index i (1-based)
BatchOf(i, batch_size) == ((i - 1) \div batch_size) + 1

\* a failing batch skips one document only
BatchFailsPerDocument(i, batch_size, failDocs, failBatches) ==
    i \in failDocs \/ BatchOf(i, batch_size) \in failBatches

\* collection.add(documents=texts, metadatas=metadatas, ids=ids) of the batch
\* of document i raises: its embedding fails for a document of the batch
\* (failDocs) or the write of the batch fails (failBatches).  A persist()
\* that raises comes after the add and after document_ids.extend(ids): it
\* leaves the records and the returned ids as a persist() that succeeds does
BatchFails(i, batch_size, failDocs, failBatches) ==
    \/ BatchOf(i, batch_size) \in failBatches
    \/ \E j \in failDocs : BatchOf(j, batch_size) = BatchOf(i, batch_size)

\* an add_documents that stores nothing once any batch has failed
add_documents_rollback(coll, nid, documents, batch_size, failDocs, failBatches) ==
    LET n == Len(documents)
        ok == \A i \in 1 .. n : ~BatchFails(i, batch_size, failDocs, failBatches)
    IN  [collection |-> IF ok
                        THEN coll \o [k \in 1 .. n |->
                                         [id |-> NewId(nid + k - 1, documents[k]),
                                          text |-> documents[k].text,
                                          metadata |-> CoerceMetadata(documents[k].metadata)]]
                        ELSE coll,
         ids |-> IF ok THEN [k \in 1 .. n |-> NewId(nid + k - 1, documents[k])] ELSE <<>>,
         drawn |-> n]

\* VectorStore.add_documents: the new collection, the returned ids and the
\* number of uuids drawn
add_documents(coll, nid, documents, batch_size, failDocs, failBatches) ==
    LET n == Len(documents)
        id(i) == NewId(nid + i - 1, documents[i])
        kept == {i \in 1 .. n : ~BatchFails(i, batch_size, failDocs, failBatches)}
        order == SetToSortedSeq(kept)
        added == [k \in 1 .. Len(order) |->
                     [id |-> id(order[k]), text |-> documents[order[k]].text,
                      metadata |-> CoerceMetadata(documents[order[k]].metadata)]]
    IN  [collection |-> coll \o added,
         ids |-> [k \in 1 .. Len(order) |-> id(order[k])],
         drawn |-> n]

\* VectorStore.count_documents
count_documents(coll) == Len(coll)

\* cosine distances and scores are counted in tenths: a distance in [0, 2]
\* is one of 0 .. 20.  The documents of a store that is searched are named
\* by their distance to the one query of the specifications: the text of a
\* record is the distance collection.query computes for it
Distances == {0, 10, 20}

QueryDistance(record) == record.text

RECURSIVE NearestFirst(_, _)
\* the indices I of the collection by ascending distance (the earlier
\* record first among equal distances)
NearestFirst(coll, I) ==
    IF I = {} THEN <<>>
    ELSE LET i == CHOOSE x \in I : \A y \in I :
                     \/ QueryDistance(coll[x]) < QueryDistance(coll[y])
                     \/ QueryDistance(coll[x]) = QueryDistance(coll[y]) /\ x <= y
         IN  <<i>> \o NearestFirst(coll, I \ {i})

\* collection.query(query_texts=[query], n_results=n): the records the
\* backend returns, as indices of the collection.  byDistance: the backend
\* returns the nearest records, nearest first (as chromadb does); otherwise
\* it returns records in the order it holds them
collection_query(coll, n, byDistance) ==
    LET all == IF byDistance THEN NearestFirst(coll, DOMAIN coll)
               ELSE [i \in DOMAIN coll |-> i]
    IN  SubSeq(all, 1, IF n < Len(all) THEN n ELSE Len(all))

\* VectorStore.search, lines 175-182: the result after an error
EmptySearch == [documents |-> <<>>, metadatas |-> <<>>, distances |-> <<>>, ids |-> <<>>]

\* a search that hands the backend's exception on
search_unguarded(coll, n_results, byDistance, storeFails) ==
    IF storeFails THEN [raised |-> TRUE, results |-> EmptySearch]
    ELSE LET hits == collection_query(coll, n_results, byDistance)
         IN  [raised |-> FALSE,
              results |-> [documents |-> [k \in DOMAIN hits |-> coll[hits[k]].text],
                           metadatas |-> [k \in DOMAIN hits |-> coll[hits[k]].metadata],
                           distances |-> [k \in DOMAIN hits |-> QueryDistance(coll[hits[k]])],
                           ids |-> [k \in DOMAIN hits |-> coll[hits[k]].id]]]

\* VectorStore.search: the four lists of the backend's result (no
\* 'embeddings' list, whatever `include` names), or four empty lists when
\* the backend raises (storeFails)
search(coll, n_results, byDistance, storeFails) ==
    LET hits == IF storeFails THEN <<>> ELSE collection_query(coll, n_results, byDistance)
    IN  [raised |-> FALSE,
         results |-> [documents |-> [k \in DOMAIN hits |-> coll[hits[k]].text],
                      metadatas |-> [k \in DOMAIN hits |-> coll[hits[k]].metadata],
                      distances |-> [k \in DOMAIN hits |-> QueryDistance(coll[hits[k]])],
                      ids |-> [k \in DOMAIN hits |-> coll[hits[k]].id]]]


\* None, for a document that is not returned
NoDocument == [none |-> TRUE]

\* VectorStore.get_document.  emb: what collection.get gives under
\* 'embeddings': no such key ("absent"), the key with None ("none", as when
\* embeddings are not included), or the stored embeddings ("present").
\* result['embeddings'][0] on None raises TypeError, which the except turns
\* into None
get_document(coll, document_id, emb, storeFails) ==
    LET found == {i \in DOMAIN coll : coll[i].id = document_id}
    IN  IF storeFails \/ found = {} \/ emb = "none" THEN NoDocument
        ELSE LET r == coll[CHOOSE i \in found : TRUE]
             IN  [none |-> FALSE, id |-> r.id, text |-> r.text, metadata |-> r.metadata,
                  embedding |-> [known |-> emb = "present", of |-> r.id]]

\* the records of the collection without those whose id is in ids
WithoutIds(coll, ids) ==
    LET keep == SetToSortedSeq({i \in DOMAIN coll : coll[i].id \notin ids})
    IN  [k \in DOMAIN keep |-> coll[keep[k]]]

\* where a store operation fails: nowhere, in the collection call (which
\* then changes nothing) or in client.persist() after it
FailPoints == {"none", "op", "persist"}

\* VectorStore.delete_documents: the new collection and the returned bool
delete_documents(coll, document_ids, failAt) ==
    IF document_ids = <<>> THEN [collection |-> coll, ret |-> FALSE]
    ELSE [collection |-> IF failAt = "op" THEN coll ELSE WithoutIds(coll, Range(document_ids)),
          ret |-> failAt = "none"]

\* VectorStore.update_document: collection.update raises (as it does for an
\* id that is not stored, failAt = "op") or replaces the text and metadata
update_document(coll, document_id, text, metadata, failAt) ==
    [collection |-> IF failAt = "op" THEN coll
                    ELSE [i \in DOMAIN coll |->
                            IF coll[i].id = document_id
                            THEN [coll[i] EXCEPT !.text = text, !.metadata = metadata]
                            ELSE coll[i]],
     ret |-> failAt = "none"]

\* VectorStore.clear_collection: delete_collection raises ("op": nothing
\* changes) or the collection is deleted and creating it anew raises
\* ("persist") or succeeds
clear_collection(coll, failAt) ==
    [collection |-> IF failAt = "op" THEN coll ELSE <<>>, ret |-> failAt = "none"]

\* VectorStore.count_documents with its except branch
count_documents_guarded(coll, storeFails) == IF storeFails THEN 0 ELSE count_documents(coll)

(***************************************************************************)
(* Retriever.  Its state is use_reranking, cross_encoder ("loaded" or      *)
(* "none") and retrieval_top_k, and with them the model keeps whether the  *)
(* constructor logged its fallback warning.  Scores are counted in tenths, *)
(* combined scores in hundredths.                                          *)
(***************************************************************************)
\* RAGConfig.retrieval_top_k, the top_k RAGService gives its Retriever
DefaultTopK == 5

\* the weights of the combined score, in tenths: 0.4 and 0.6
VectorWeight == 4

RerankWeight == 6

\* a constructor that leaves use_reranking set when the model fails to load
retriever_init_keeps_flag(use_reranking, loadFails, top_k) ==
    [use_reranking |-> use_reranking,
     cross_encoder |-> IF use_reranking /\ ~loadFails THEN "loaded" ELSE "none",
     retrieval_top_k |-> top_k,
     warned |-> use_reranking /\ loadFails]

\* Retriever.__init__.  loadFails: CrossEncoder(model) raises, which is
\* caught: the warning "Failed to load cross-encoder" is logged (warned)
\* and use_reranking is cleared
retriever_init(use_reranking, loadFails, top_k) ==
    [use_reranking |-> use_reranking /\ ~loadFails,
     cross_encoder |-> IF use_reranking /\ ~loadFails THEN "loaded" ELSE "none",
     retrieval_top_k |-> top_k,
     warned |-> use_reranking /\ loadFails]

\* 1.0 - (distance / 2.0), in tenths (the distances of the model are even)
Similarity(distance) == 10 - distance \div 2

\* the length of zip(...) over lists of these lengths
ZipLen(lengths) == CHOOSE n \in lengths : \A m \in lengths : n <= m

\* a _format_results that hands the distance on as the score
format_results_raw(results, n_results) ==
    LET m == ZipLen({Len(results.documents), Len(results.metadatas), Len(results.distances)})
        k == IF n_results < m THEN n_results ELSE m
    IN  [i \in 1 .. k |->
            [text |-> results.documents[i], metadata |-> results.metadatas[i],
             score |-> results.distances[i], embedding |-> "None"]]

\* Retriever._format_results: the first n_results candidates in the order
\* of the result, each with score = 1 - distance / 2; 'embeddings' is not a
\* key of the results of VectorStore.search, so every embedding is None
format_results(results, n_results) ==
    LET m == ZipLen({Len(results.documents), Len(results.metadatas), Len(results.distances)})
        k == IF n_results < m THEN n_results ELSE m
    IN  [i \in 1 .. k |->
            [text |-> results.documents[i], metadata |-> results.metadatas[i],
             score |-> Similarity(results.distances[i]), embedding |-> "None"]]

RECURSIVE SortDescending(_, _)
\* list.sort(key=combined_score, reverse=True) over the indices I of the
\* scored list: the highest score first, and the stable sort keeps
\* candidates of equal score in the order of the list
SortDescending(scored, I) ==
    IF I = {} THEN <<>>
    ELSE LET i == CHOOSE x \in I : \A y \in I :
                     \/ scored[x].combined_score > scored[y].combined_score
                     \/ scored[x].combined_score = scored[y].combined_score /\ x <= y
         IN  <<scored[i]>> \o SortDescending(scored, I \ {i})

\* Retriever._rerank_with_cross_encoder.  scores: what cross_encoder.predict
\* gives for the candidates; predictFails: predict raises.  The zip reads
\* results['embeddings']: a KeyError when the result has no such key
rerank_with_cross_encoder(results, scores, n_results, predictFails) ==
    IF results.documents = <<>> THEN [raised |-> FALSE, list |-> <<>>]
    ELSE IF predictFails \/ "embeddings" \notin DOMAIN results
    THEN [raised |-> TRUE, list |-> <<>>]
    ELSE LET m == ZipLen({Len(results.documents), Len(results.metadatas),
                          Len(results.distances), Len(results.embeddings)})
             scored == [i \in 1 .. m |->
                          [text |-> results.documents[i], metadata |-> results.metadatas[i],
                           vector_score |-> Similarity(results.distances[i]),
                           cross_encoder_score |-> scores[i],
                           combined_score |->
                              Similarity(results.distances[i]) * VectorWeight
                                 + scores[i] * RerankWeight,
                           embedding |-> results.embeddings[i]]]
             sorted == SortDescending(scored, 1 .. m)
         IN  [raised |-> FALSE,
              list |-> SubSeq(sorted, 1, IF n_results < m THEN n_results ELSE m)]

\* Retriever.retrieve (_expand_query returns the query as it is): the path
\* taken, whether the call raised, and the returned list
retrieve(retr, coll, n_results, byDistance, storeFails, scores, predictFails) ==
    LET s == search(coll, retr.retrieval_top_k, byDistance, storeFails)
    IN  IF s.raised THEN [path |-> "search", raised |-> TRUE, list |-> <<>>]
        ELSE IF s.results.documents = <<>>
        THEN [path |-> "empty", raised |-> FALSE, list |-> <<>>]
        ELSE IF retr.use_reranking /\ retr.cross_encoder # "none"
        THEN LET r == rerank_with_cross_encoder(s.results, scores, n_results, predictFails)
             IN  [path |-> "rerank", raised |-> r.raised, list |-> r.list]
        ELSE [path |-> "vector", raised |-> FALSE,
              list |-> format_results(s.results, n_results)]

\* Retriever.get_similar_documents.  For a document get_document returns,
\* the call self.vector_store.search(query_embeddings=..., n_results=...,
\* include=...) raises TypeError: search has no parameter query_embeddings
\* and its parameter query is required
get_similar_documents(coll, document_id, n_results, emb, storeFails) ==
    IF get_document(coll, document_id, emb, storeFails).none
    THEN [raised |-> FALSE, list |-> <<>>]
    ELSE [raised |-> TRUE, list |-> <<>>]

\* RAGService.search: n_results or self.config.retrieval_top_k, where None
\* (written -1 here) and 0 are both false
service_search(retr, coll, n_results, byDistance, storeFails, scores, predictFails) ==
    retrieve(retr, coll,
             IF n_results = -1 \/ n_results = 0 THEN retr.retrieval_top_k ELSE n_results,
             byDistance, storeFails, scores, predictFails)

(***************************************************************************)
(* RAGService: the processing cache.  The cache directory maps a cache key *)
(* to the content of the file <key>.json: the JSON text of a result, or a  *)
(* text json.load rejects (a truncated file).                              *)
(***************************************************************************)
PathX == Path("a", "x", ".txt")

Paths == {PathX}

\* a dict with a tuple value, and the dict with the list of the same elements
TupleMeta == DictOfKind(<<1>>, "tuple")

ListMeta == DictOfKind(<<1>>, "list")

Metas ==
    {NoneMeta, Dict(<<>>), Dict(<<1, 2>>), Dict(<<2, 1>>), TupleMeta, ListMeta,
     DictOfKind(<<1, 2>>, "tuple"), DictOfKind(<<2, 1>>, "tuple")}

\* every chunk position of the largest document
AllChunks == 0 .. MaxChunks - 1

ReadOutcomes == {"ok", "fails"}

WriteOutcomes == {"ok", "open_fails", "dump_fails"}

\* the value json.load reads from the text json.dump writes for a result: the
\* values the pipeline computes are JSON values (strings, numbers, lists,
\* dicts with string keys) and come back as they are; the caller's metadata
\* values, in the result and in every chunk, come back in their JSON form
JsonResult(result) ==
    [result EXCEPT
        !.metadata.caller = JsonItems(@),
        !.chunks = [k \in DOMAIN result.chunks |->
                       [result.chunks[k] EXCEPT !.metadata.caller = JsonItems(@)]]]

\* json.dump(result, f) into the cache file, as json.load(f) reads it back
json_dump(result) == [corrupt |-> FALSE, value |-> JsonResult(result)]

Truncated == [corrupt |-> TRUE, value |-> NoResult]

EmptyCache == [k \in {} |-> Truncated]

\* the cache directory after writing the file of key k
CachePut(c, k, e) == [x \in DOMAIN c \cup {k} |-> IF x = k THEN e ELSE c[x]]

\* the cache directory without the files of the keys in K
CacheRemove(c, K) == [x \in DOMAIN c \ K |-> c[x]]

\* the callers of process_document whose calls may interleave
Callers == 1 .. MaxCallers

\* a caller that has not called process_document: pc is the position of the
\* call, the other fields are the locals of process_document
IdleCall ==
    [pc |-> "idle", path |-> Path("", "", ""), meta |-> NoneMeta, force |-> FALSE,
     file |-> NoFile, key |-> <<>>, branch |-> "none", outcome |-> "none",
     result |-> NoResult]

NoCalls == [c \in Callers |-> IdleCall]

\* what a call that has returned or raised leaves in `last`
CallRecord(call) ==
    [op |-> "process_document", path |-> call.path, meta |-> call.meta,
     force |-> call.force, file |-> call.file, key |-> call.key, branch |-> call.branch,
     outcome |-> call.outcome, result |-> call.result]

\* a cache check that looks for a file name no entry is written under
CacheHitWrongFile(p, metadata, force) ==
    /\ ~force
    /\ use_cache
    /\ FALSE

\* a cache check that ignores force_reprocess
CacheHitIgnoringForce(p, metadata, force) ==
    /\ use_cache
    /\ generate_cache_key(p, fs[p], metadata) \in DOMAIN cache

\* the check `not force_reprocess and self.config.use_cache and cache_file.exists()`
CacheHit(p, metadata, force) ==
    /\ ~force
    /\ use_cache
    /\ generate_cache_key(p, fs[p], metadata) \in DOMAIN cache

\* process_document, lines 133-135: the file does not exist
ProcessNotFound(p, metadata, force) ==
    /\ budget > 0
    /\ ~fs[p].exists
    /\ last' = [op |-> "process_document", path |-> p, meta |-> metadata, force |-> force,
                file |-> fs[p], key |-> <<>>, branch |-> "not_found",
                outcome |-> "raised", result |-> NoResult]
    /\ budget' = budget - 1
    /\ UNCHANGED <<fs, use_cache, cache, store, nextId, issued, retriever, calls>>

\* process_document, lines 137-145: the entry of the key is read and returned.
\* rd: whether open() and the read succeed
ProcessCached(p, metadata, force, rd) ==
    /\ budget > 0
    /\ fs[p].exists
    /\ CacheHit(p, metadata, force)
    /\ LET key == generate_cache_key(p, fs[p], metadata)
           raises == rd = "fails" \/ cache[key].corrupt
       IN  /\ cache[key].corrupt => rd = "ok"
           /\ last' = [op |-> "process_document", path |-> p, meta |-> metadata,
                       force |-> force, file |-> fs[p], key |-> key, branch |-> "cached",
                       outcome |-> IF raises THEN "raised" ELSE "returned",
                       result |-> IF raises THEN NoResult ELSE cache[key].value]
    /\ budget' = budget - 1
    /\ UNCHANGED <<fs, use_cache, cache, store, nextId, issued, retriever, calls>>

\* a pipeline run that replaces the records of the chunks the store holds
ProcessPipelineReplacing(p, metadata, force, readFails, embedded, failBatches, wr) ==
    /\ budget > 0
    /\ fs[p].exists
    /\ ~CacheHit(p, metadata, force)
    /\ readFails => ExtractOk(p, fs[p], FALSE)
    /\ embedded \subseteq
          (IF ExtractOk(p, fs[p], readFails) THEN 0 .. chunk_content(fs[p].content) - 1 ELSE {})
    /\ failBatches \subseteq 1 .. NumBatches(Cardinality(embedded), DefaultBatchSize)
    /\ ~use_cache => wr = "ok"
    /\ LET key == generate_cache_key(p, fs[p], metadata)
           r0 == dp_process_document(p, fs[p], OrEmpty(metadata), readFails, embedded)
           held == {i \in DOMAIN store : \E k \in DOMAIN r0.chunks :
                                                store[i].text = r0.chunks[k].text}
           add == add_documents(WithoutIds(store, {store[i].id : i \in held}), nextId,
                                r0.chunks, DefaultBatchSize, {}, failBatches)
           result == [r0 EXCEPT !.document_ids = add.ids]
           raises == use_cache /\ wr # "ok"
       IN  /\ nextId + add.drawn - 1 <= MaxIds
           /\ store' = add.collection
           /\ nextId' = nextId + add.drawn
           /\ issued' = issued \o add.ids
           /\ cache' = IF ~use_cache \/ wr = "open_fails" THEN cache
                       ELSE IF wr = "dump_fails" THEN CachePut(cache, key, Truncated)
                       ELSE CachePut(cache, key, json_dump(result))
           /\ last' = [op |-> "process_document", path |-> p, meta |-> metadata,
                       force |-> force, file |-> fs[p], key |-> key, branch |-> "pipeline",
                       outcome |-> IF raises THEN "raised" ELSE "returned",
                       result |-> IF raises THEN NoResult ELSE result]
    /\ budget' = budget - 1
    /\ UNCHANGED <<fs, use_cache, retriever, calls>>

\* process_document, lines 147-163: the pipeline runs, its chunks are added
\* to the vector store and the result is written to the cache.  readFails:
\* the extraction raises; embedded: the positions whose embedding succeeds;
\* failBatches: the batches whose collection.add raises; wr: whether open()
\* and json.dump succeed
ProcessPipeline(p, metadata, force, readFails, embedded, failBatches, wr) ==
    /\ budget > 0
    /\ fs[p].exists
    /\ ~CacheHit(p, metadata, force)
    /\ readFails => ExtractOk(p, fs[p], FALSE)
    /\ embedded \subseteq
          (IF ExtractOk(p, fs[p], readFails) THEN 0 .. chunk_content(fs[p].content) - 1 ELSE {})
    /\ failBatches \subseteq 1 .. NumBatches(Cardinality(embedded), DefaultBatchSize)
    /\ ~use_cache => wr = "ok"
    /\ LET key == generate_cache_key(p, fs[p], metadata)
           r0 == dp_process_document(p, fs[p], OrEmpty(metadata), readFails, embedded)
           add == add_documents(store, nextId, r0.chunks, DefaultBatchSize, {}, failBatches)
           result == [r0 EXCEPT !.document_ids = add.ids]
           raises == use_cache /\ wr # "ok"
       IN  /\ nextId + add.drawn - 1 <= MaxIds
           /\ store' = add.collection
           /\ nextId' = nextId + add.drawn
           /\ issued' = issued \o add.ids
           /\ cache' = IF ~use_cache \/ wr = "open_fails" THEN cache
                       ELSE IF wr = "dump_fails" THEN CachePut(cache, key, Truncated)
                       ELSE CachePut(cache, key, json_dump(result))
           /\ last' = [op |-> "process_document", path |-> p, meta |-> metadata,
                       force |-> force, file |-> fs[p], key |-> key, branch |-> "pipeline",
                       outcome |-> IF raises THEN "raised" ELSE "returned",
                       result |-> IF raises THEN NoResult ELSE result]
    /\ budget' = budget - 1
    /\ UNCHANGED <<fs, use_cache, retriever, calls>>

\* process_document as steps of one caller c, for calls that run at the same
\* time.  Lines 132-145: the file is looked up, the key is computed and the
\* cache is checked; on a hit the entry is read and the call returns, on a
\* miss the call goes on to the pipeline
CheckCache(c, p, metadata, force) ==
    /\ calls[c].pc = "idle"
    /\ budget > 0
    /\ LET exists == fs[p].exists
           key == IF exists THEN generate_cache_key(p, fs[p], metadata) ELSE <<>>
           hit == exists /\ CacheHit(p, metadata, force)
           loads == hit /\ ~cache[key].corrupt
           call == [pc |-> IF exists /\ ~hit THEN "missed" ELSE "done",
                    path |-> p, meta |-> metadata, force |-> force, file |-> fs[p],
                    key |-> key,
                    branch |-> IF ~exists THEN "not_found"
                               ELSE IF hit THEN "cached" ELSE "pipeline",
                    outcome |-> IF exists /\ ~hit THEN "none"
                                ELSE IF loads THEN "returned" ELSE "raised",
                    result |-> IF loads THEN cache[key].value ELSE NoResult]
       IN  /\ calls' = [calls EXCEPT ![c] = call]
           /\ last' = IF call.pc = "done" THEN CallRecord(call) ELSE last
    /\ budget' = budget - 1
    /\ UNCHANGED <<fs, use_cache, cache, store, nextId, issued, retriever>>

\* lines 147-156 (and 163 without caching): the document is processed and
\* its chunks are added to the vector store
RunPipeline(c) ==
    /\ calls[c].pc = "missed"
    /\ LET call == calls[c]
           f == fs[call.path]
           embedded == IF ExtractOk(call.path, f, FALSE)
                       THEN 0 .. chunk_content(f.content) - 1 ELSE {}
           r0 == dp_process_document(call.path, f, OrEmpty(call.meta), FALSE, embedded)
           add == add_documents(store, nextId, r0.chunks, DefaultBatchSize, {}, {})
           result == [r0 EXCEPT !.document_ids = add.ids]
           after == [call EXCEPT !.pc = IF use_cache THEN "added" ELSE "done",
                                 !.outcome = IF use_cache THEN "none" ELSE "returned",
                                 !.result = result]
       IN  /\ nextId + add.drawn - 1 <= MaxIds
           /\ store' = add.collection
           /\ nextId' = nextId + add.drawn
           /\ issued' = issued \o add.ids
           /\ calls' = [calls EXCEPT ![c] = after]
           /\ last' = IF use_cache THEN last ELSE CallRecord(after)
    /\ UNCHANGED <<fs, use_cache, cache, budget, retriever>>

\* line 159: open(cache_file, 'w') creates or truncates the entry's file
OpenCacheFile(c) ==
    /\ calls[c].pc = "added"
    /\ cache' = CachePut(cache, calls[c].key, Truncated)
    /\ calls' = [calls EXCEPT ![c].pc = "opened"]
    /\ UNCHANGED <<fs, use_cache, store, nextId, issued, last, budget, retriever>>

\* a dump that leaves a readable entry another call has written as it is
DumpResultKeepingFirst(c) ==
    /\ calls[c].pc = "opened"
    /\ LET call == calls[c]
           after == [call EXCEPT !.pc = "done", !.outcome = "returned"]
       IN  /\ cache' = IF call.key \in DOMAIN cache /\ ~cache[call.key].corrupt
                       THEN cache
                       ELSE CachePut(cache, call.key, json_dump(call.result))
           /\ calls' = [calls EXCEPT ![c] = after]
           /\ last' = CallRecord(after)
    /\ UNCHANGED <<fs, use_cache, store, nextId, issued, budget, retriever>>

\* lines 160-163: json.dump writes the result from the start of the file,
\* the file is closed and the call returns.  The results of two calls for
\* one key on one file are texts of the same length, so that the dump that
\* ends last leaves its own text whole
DumpResult(c) ==
    /\ calls[c].pc = "opened"
    /\ LET call == calls[c]
           after == [call EXCEPT !.pc = "done", !.outcome = "returned"]
       IN  /\ cache' = CachePut(cache, call.key, json_dump(call.result))
           /\ calls' = [calls EXCEPT ![c] = after]
           /\ last' = CallRecord(after)
    /\ UNCHANGED <<fs, use_cache, store, nextId, issued, budget, retriever>>

\* a clear_cache that gives up at the first unlink that raises
ClearCacheStopAtFailure(listFails, undeleted) ==
    /\ budget > 0
    /\ undeleted \subseteq DOMAIN cache
    /\ listFails => undeleted = {}
    /\ cache' = IF listFails \/ undeleted # {} THEN cache ELSE EmptyCache
    /\ last' = [op |-> "clear_cache", outcome |-> "returned", ret |-> ~listFails,
                undeleted |-> undeleted,
                deleted |-> IF listFails THEN {} ELSE DOMAIN cache \ undeleted]
    /\ budget' = budget - 1
    /\ UNCHANGED <<fs, use_cache, store, nextId, issued, retriever, calls>>

\* RAGService.clear_cache.  listFails: listing the directory raises;
\* undeleted: the entries whose unlink raises
ClearCache(listFails, undeleted) ==
    /\ budget > 0
    /\ undeleted \subseteq DOMAIN cache
    /\ listFails => undeleted = {}
    /\ cache' = IF listFails THEN cache ELSE CacheRemove(cache, DOMAIN cache \ undeleted)
    /\ last' = [op |-> "clear_cache", outcome |-> "returned", ret |-> ~listFails,
                undeleted |-> undeleted,
                deleted |-> IF listFails THEN {} ELSE DOMAIN cache \ undeleted]
    /\ budget' = budget - 1
    /\ UNCHANGED <<fs, use_cache, store, nextId, issued, retriever, calls>>

\* RAGService.__init__ with a configuration whose use_cache is uc, over the
\* existing cache directory and collection
Construct(uc) ==
    /\ use_cache # uc
    /\ use_cache' = uc
    /\ last' = [op |-> "construct"]
    /\ UNCHANGED <<fs, cache, store, nextId, issued, budget, retriever, calls>>

\* the file at p is written, touched or deleted by its owner (no call of
\* the service: `last` keeps the last call)
ModifyFile(p, f) ==
    /\ fs[p] # f
    /\ fs' = [fs EXCEPT ![p] = f]
    /\ UNCHANGED <<use_cache, cache, store, nextId, issued, last, budget, retriever, calls>>

\* the metadata kind of the i-th document of a direct add_documents call
KindOf(i) ==
    CASE i % 3 = 1 -> "dict" [] i % 3 = 2 -> "not_dict" [] OTHER -> "unserializable"

\* a direct call VectorStore.add_documents(documents, batch_size) with n
\* documents.  failDocs: the documents whose embedding raises inside
\* collection.add; failBatches: the batches whose write raises;
\* persistFails: the batches whose client.persist() raises
AddDocuments(n, batch_size, failDocs, failBatches, persistFails) ==
    /\ budget > 0
    /\ failDocs \subseteq 1 .. n
    /\ failBatches \subseteq 1 .. NumBatches(n, batch_size)
    /\ persistFails \subseteq 1 .. NumBatches(n, batch_size)
    /\ nextId + n - 1 <= MaxDrawn
    /\ LET documents == [i \in 1 .. n |-> Document(i, KindOf(i))]
           add == add_documents(store, nextId, documents, batch_size, failDocs, failBatches)
       IN  /\ store' = add.collection
           /\ nextId' = nextId + add.drawn
           /\ issued' = issued \o add.ids
           /\ last' = [op |-> "add_documents", n |-> n, batch_size |-> batch_size,
                       embedFailed |-> {BatchOf(j, batch_size) : j \in failDocs},
                       addFailed |-> failBatches, ids |-> add.ids,
                       count_before |-> count_documents(store)]
    /\ budget' = budget - 1
    /\ UNCHANGED <<fs, use_cache, cache, retriever, calls>>

\* a call DocumentProcessor.process_document(file_path, metadata).  A
\* missing file raises FileNotFoundError before the try block (lines 82-85)
DpProcessDocument(p, metadata, readFails, embedded) ==
    /\ budget > 0
    /\ ~fs[p].exists => ~readFails /\ embedded = {}
    /\ last' = [op |-> "dp_process_document", path |-> p, meta |-> metadata, file |-> fs[p],
                readFails |-> readFails, embedded |-> embedded,
                outcome |-> IF fs[p].exists THEN "returned" ELSE "raised",
                result |-> IF fs[p].exists
                           THEN dp_process_document(p, fs[p], metadata, readFails, embedded)
                           ELSE NoResult]
    /\ budget' = budget - 1
    /\ UNCHANGED <<fs, use_cache, cache, store, nextId, issued, retriever, calls>>

\* a call DocumentProcessor._chunk_content(content, chunk_size, overlap) on
\* a content with these sentences
ChunkContent(sentences, chunk_size, overlap) ==
    /\ budget > 0
    /\ last' = [op |-> "chunk_content", sentences |-> sentences, chunk_size |-> chunk_size,
                overlap |-> overlap, outcome |-> "returned",
                chunks |-> chunk_sentences(sentences, chunk_size, overlap)]
    /\ budget' = budget - 1
    /\ UNCHANGED <<fs, use_cache, cache, store, nextId, issued, retriever, calls>>

\* a call TextUtils.split_into_sentences(text)
SplitIntoSentences(text) ==
    /\ budget > 0
    /\ last' = [op |-> "split_into_sentences", text |-> text, outcome |-> "returned",
                sentences |-> split_into_sentences(text)]
    /\ budget' = budget - 1
    /\ UNCHANGED <<fs, use_cache, cache, store, nextId, issued, retriever, calls>>

\* a reset_vector_store that empties the cache directory as well
ResetVectorStoreClearingCache(failAt) ==
    /\ budget > 0
    /\ LET r == clear_collection(store, failAt)
       IN  /\ store' = r.collection
           /\ last' = [op |-> "reset_vector_store", storeFails |-> (failAt # "none"),
                       outcome |-> "returned", ret |-> r.ret]
    /\ cache' = EmptyCache
    /\ budget' = budget - 1
    /\ UNCHANGED <<fs, use_cache, nextId, issued, retriever, calls>>

\* a call RAGService.reset_vector_store(): vector_store.clear_collection()
ResetVectorStore(failAt) ==
    /\ budget > 0
    /\ LET r == clear_collection(store, failAt)
       IN  /\ store' = r.collection
           /\ last' = [op |-> "reset_vector_store", storeFails |-> (failAt # "none"),
                       outcome |-> "returned", ret |-> r.ret]
    /\ budget' = budget - 1
    /\ UNCHANGED <<fs, use_cache, cache, nextId, issued, retriever, calls>>

\* a call RAGService.delete_document(document_id):
\* vector_store.delete_documents([document_id])
DeleteDocument(document_id, failAt) ==
    /\ budget > 0
    /\ LET r == delete_documents(store, <<document_id>>, failAt)
       IN  /\ store' = r.collection
           /\ last' = [op |-> "delete_document", id |-> document_id,
                       storeFails |-> (failAt # "none"),
                       outcome |-> "returned", ret |-> r.ret]
    /\ budget' = budget - 1
    /\ UNCHANGED <<fs, use_cache, cache, nextId, issued, retriever, calls>>

\* "returned" or "raised"
Outcome(raised) == IF raised THEN "raised" ELSE "returned"

\* Retriever(vector_store, use_reranking=..., retrieval_top_k=...) is
\* constructed over the store
RetrieverInit(use_reranking, loadFails, top_k) ==
    /\ last.op = "init"
    /\ loadFails => use_reranking
    /\ retriever' = retriever_init(use_reranking, loadFails, top_k)
    /\ last' = [op |-> "retriever_init", use_reranking |-> use_reranking,
                loadFails |-> loadFails, outcome |-> "returned"]
    /\ UNCHANGED <<fs, use_cache, cache, store, nextId, issued, budget, calls>>

\* a call VectorStore.search(query, n_results)
VsSearch(n_results, byDistance, storeFails) ==
    /\ budget > 0 /\ last.op = "retriever_init"
    /\ LET r == search(store, n_results, byDistance, storeFails)
       IN  last' = [op |-> "search", n |-> n_results, byDistance |-> byDistance,
                    storeFails |-> storeFails, outcome |-> Outcome(r.raised), ret |-> r.results]
    /\ budget' = budget - 1
    /\ UNCHANGED <<fs, use_cache, cache, store, nextId, issued, retriever, calls>>

\* a call VectorStore.get_document(document_id)
VsGetDocument(document_id, emb, storeFails) ==
    /\ budget > 0 /\ last.op = "retriever_init"
    /\ last' = [op |-> "get_document", id |-> document_id, storeFails |-> storeFails,
                outcome |-> "returned",
                ret |-> get_document(store, document_id, emb, storeFails)]
    /\ budget' = budget - 1
    /\ UNCHANGED <<fs, use_cache, cache, store, nextId, issued, retriever, calls>>

\* a call VectorStore.delete_documents(document_ids)
VsDeleteDocuments(document_ids, failAt) ==
    /\ budget > 0 /\ last.op = "retriever_init"
    /\ LET r == delete_documents(store, document_ids, failAt)
       IN  /\ store' = r.collection
           /\ last' = [op |-> "delete_documents", ids |-> document_ids,
                       storeFails |-> (document_ids # <<>> /\ failAt # "none"),
                       outcome |-> "returned", ret |-> r.ret]
    /\ budget' = budget - 1
    /\ UNCHANGED <<fs, use_cache, cache, nextId, issued, retriever, calls>>

\* a call VectorStore.update_document(document_id, text, metadata)
VsUpdateDocument(document_id, text, failAt) ==
    /\ budget > 0 /\ last.op = "retriever_init"
    /\ (\A i \in DOMAIN store : store[i].id # document_id) => failAt = "op"
    /\ LET r == update_document(store, document_id, text, [kind |-> "dict", key |-> 0], failAt)
       IN  /\ store' = r.collection
           /\ last' = [op |-> "update_document", id |-> document_id,
                       storeFails |-> (failAt # "none"),
                       outcome |-> "returned", ret |-> r.ret]
    /\ budget' = budget - 1
    /\ UNCHANGED <<fs, use_cache, cache, nextId, issued, retriever, calls>>

\* a call VectorStore.count_documents()
VsCountDocuments(storeFails) ==
    /\ budget > 0 /\ last.op = "retriever_init"
    /\ last' = [op |-> "count_documents", storeFails |-> storeFails,
                outcome |-> "returned", ret |-> count_documents_guarded(store, storeFails)]
    /\ budget' = budget - 1
    /\ UNCHANGED <<fs, use_cache, cache, store, nextId, issued, retriever, calls>>

\* a call VectorStore.clear_collection()
VsClearCollection(failAt) ==
    /\ budget > 0 /\ last.op = "retriever_init"
    /\ LET r == clear_collection(store, failAt)
       IN  /\ store' = r.collection
           /\ last' = [op |-> "clear_collection", storeFails |-> (failAt # "none"),
                       outcome |-> "returned", ret |-> r.ret]
    /\ budget' = budget - 1
    /\ UNCHANGED <<fs, use_cache, cache, nextId, issued, retriever, calls>>

\* a call Retriever.retrieve(query, n_results)
Retrieve(n_results, byDistance, storeFails, scores, predictFails) ==
    /\ budget > 0 /\ last.op = "retriever_init"
    /\ LET r == retrieve(retriever, store, n_results, byDistance, storeFails, scores,
                         predictFails)
       IN  last' = [op |-> "retrieve", n |-> n_results, byDistance |-> byDistance,
                    storeFails |-> storeFails, predictFails |-> predictFails,
                    path |-> r.path,
                    outcome |-> Outcome(r.raised), ret |-> r.list]
    /\ budget' = budget - 1
    /\ UNCHANGED <<fs, use_cache, cache, store, nextId, issued, retriever, calls>>

\* a call RAGService.search(query, n_results) (-1: n_results is None)
ServiceSearch(n_results, byDistance, storeFails, scores, predictFails) ==
    /\ budget > 0 /\ last.op = "retriever_init"
    /\ LET r == service_search(retriever, store, n_results, byDistance, storeFails, scores,
                                predictFails)
       IN  last' = [op |-> "service_search", n |-> n_results, byDistance |-> byDistance,
                    storeFails |-> storeFails, predictFails |-> predictFails,
                    path |-> r.path,
                    outcome |-> Outcome(r.raised), ret |-> r.list]
    /\ budget' = budget - 1
    /\ UNCHANGED <<fs, use_cache, cache, store, nextId, issued, retriever, calls>>

\* a call Retriever.get_similar_documents(document_id, n_results)
GetSimilarDocuments(document_id, n_results, emb, storeFails) ==
    /\ budget > 0 /\ last.op = "retriever_init"
    /\ LET r == get_similar_documents(store, document_id, n_results, emb, storeFails)
       IN  last' = [op |-> "get_similar_documents", id |-> document_id, n |-> n_results,
                    emb |-> emb, storeFails |-> storeFails,
                    outcome |-> Outcome(r.raised), ret |-> r.list]
    /\ budget' = budget - 1
    /\ UNCHANGED <<fs, use_cache, cache, store, nextId, issued, retriever, calls>>

(***************************************************************************)
(* Spec: the service over one file that is absent, empty or a document and *)
(* does not change.  The extraction, the embedding, the store write, the   *)
(* cache read, the cache write and the cache delete may each fail.         *)
(***************************************************************************)
FilesCore == {NoFile, File("empty", 0), File("doc", 0)}

\* None, and one dict of tuple values with its keys in either order
MetasCore == {NoneMeta, DictOfKind(<<1, 2>>, "tuple"), DictOfKind(<<2, 1>>, "tuple")}

InitService(files, configs, budget0) ==
    /\ fs \in [Paths -> files]
    /\ use_cache \in configs
    /\ cache = EmptyCache
    /\ store = <<>>
    /\ nextId = 1
    /\ issued = <<>>
    /\ last = [op |-> "init"]
    /\ budget = budget0
    /\ calls = NoCalls
    /\ retriever = retriever_init(TRUE, FALSE, DefaultTopK)

Init == InitService(FilesCore, BOOLEAN, MaxCalls)

Next ==
    \/ \E p \in Paths, metadata \in MetasCore, force \in BOOLEAN :
          ProcessNotFound(p, metadata, force)
    \/ \E p \in Paths, metadata \in MetasCore, force \in BOOLEAN, rd \in ReadOutcomes :
          ProcessCached(p, metadata, force, rd)
    \/ \E p \in Paths, metadata \in MetasCore, force \in BOOLEAN, readFails \in BOOLEAN,
          embedded \in {{}, AllChunks}, failBatches \in SUBSET {1}, wr \in WriteOutcomes :
          ProcessPipeline(p, metadata, force, readFails, embedded, failBatches, wr)
    \/ \E listFails \in BOOLEAN, undeleted \in SUBSET DOMAIN cache :
          ClearCache(listFails, undeleted)
    \/ \E uc \in BOOLEAN : Construct(uc)

Spec == Init /\ [][Next]_vars

(***************************************************************************)
(* SpecInval: the service with caching enabled over one file whose content *)
(* and mtime change between the calls; nothing fails.                      *)
(***************************************************************************)
FilesInval == {File("blank", 0)} \cup {File("doc", t) : t \in 0 .. MaxMtime}

MetasInval == {NoneMeta, Dict(<<>>), TupleMeta, ListMeta}

InitInval == InitService(FilesInval, {TRUE}, MaxCalls)

NextInval ==
    \/ \E p \in Paths, metadata \in MetasInval, force \in BOOLEAN :
          ProcessCached(p, metadata, force, "ok")
    \/ \E p \in Paths, metadata \in MetasInval, force \in BOOLEAN :
          ProcessPipeline(p, metadata, force, FALSE,
                          0 .. chunk_content(fs[p].content) - 1, {}, "ok")
    \/ \E p \in Paths, f \in FilesInval : ModifyFile(p, f)

SpecInval == InitInval /\ [][NextInval]_vars

(***************************************************************************)
(* SpecVS: the vector store alone, under direct add_documents calls.  The  *)
(* embedding of at most one document of a call fails; any batches fail to  *)
(* be written or persisted.                                                *)
(***************************************************************************)
BatchSizes == {SmallBatch, DefaultBatchSize}

InitVS == InitService({NoFile}, {FALSE}, MaxAdds)

NextVS ==
    \E n \in 0 .. MaxDocs, batch_size \in BatchSizes :
       \E failDocs \in {{}} \cup {{j} : j \in 1 .. n},
          failBatches \in SUBSET (1 .. NumBatches(n, batch_size)),
          persistFails \in SUBSET (1 .. NumBatches(n, batch_size)) :
          AddDocuments(n, batch_size, failDocs, failBatches, persistFails)

SpecVS == InitVS /\ [][NextVS]_vars

(***************************************************************************)
(* SpecRet: a store that holds up to MaxStored documents, a Retriever       *)
(* constructed over it, and then one call of the store or the retriever.   *)
(* The model of the cross-encoder may fail to load, the backend may fail,  *)
(* and the backend returns its hits nearest first or in insertion order.   *)
(***************************************************************************)
\* the record of the i-th stored document, at distance d of the query
StoredRecord(i, d) ==
    [id |-> <<"uuid", i>>, text |-> d, metadata |-> [kind |-> "dict", key |-> i]]

\* an id no record has
UnknownId == <<"uuid", 0>>

\* the retrieval_top_k of the retrievers: below and above the store's size
TopKs == {1, DefaultTopK}

\* what cross_encoder.predict gives for a candidate, in tenths
CrossScores == {0, 10}

\* how collection.get answers for 'embeddings'
EmbeddingAnswers == {"absent", "none", "present"}

InitRet ==
    /\ fs \in [Paths -> {NoFile}]
    /\ use_cache = FALSE
    /\ cache = EmptyCache
    /\ \E n \in 0 .. MaxStored : \E dist \in [1 .. n -> Distances] :
          /\ store = [i \in 1 .. n |-> StoredRecord(i, dist[i])]
          /\ issued = [i \in 1 .. n |-> <<"uuid", i>>]
          /\ nextId = n + 1
    /\ last = [op |-> "init"]
    /\ budget = 1
    /\ calls = NoCalls
    /\ retriever = [use_reranking |-> FALSE, cross_encoder |-> "none", retrieval_top_k |-> 0,
                    warned |-> FALSE]

NextRet ==
    \/ \E use_reranking \in BOOLEAN, loadFails \in BOOLEAN, top_k \in TopKs :
          RetrieverInit(use_reranking, loadFails, top_k)
    \/ \E n \in 1 .. MaxStored, byDistance \in BOOLEAN, storeFails \in BOOLEAN :
          VsSearch(n, byDistance, storeFails)
    \/ \E id \in Range(issued) \cup {UnknownId}, emb \in EmbeddingAnswers,
          storeFails \in BOOLEAN :
          VsGetDocument(id, emb, storeFails)
    \/ \E ids \in {<<>>} \cup {<<id>> : id \in Range(issued) \cup {UnknownId}},
          failAt \in FailPoints :
          VsDeleteDocuments(ids, failAt)
    \/ \E id \in Range(issued) \cup {UnknownId}, text \in Distances, failAt \in FailPoints :
          VsUpdateDocument(id, text, failAt)
    \/ \E storeFails \in BOOLEAN : VsCountDocuments(storeFails)
    \/ \E failAt \in FailPoints : VsClearCollection(failAt)
    \/ \E n \in 0 .. MaxStored, byDistance \in BOOLEAN, storeFails \in BOOLEAN,
          scores \in [DOMAIN store -> CrossScores], predictFails \in BOOLEAN :
          Retrieve(n, byDistance, storeFails, scores, predictFails)
    \/ \E n \in -1 .. MaxStored, byDistance \in BOOLEAN, storeFails \in BOOLEAN,
          scores \in [DOMAIN store -> CrossScores], predictFails \in BOOLEAN :
          ServiceSearch(n, byDistance, storeFails, scores, predictFails)
    \/ \E id \in Range(issued) \cup {UnknownId}, n \in 0 .. MaxStored,
          emb \in EmbeddingAnswers, storeFails \in BOOLEAN :
          GetSimilarDocuments(id, n, emb, storeFails)

SpecRet == InitRet /\ [][NextRet]_vars

(***************************************************************************)
(* SpecDP: the document processor alone, called on one file that is        *)
(* missing, empty, blank or a document, under a supported or an            *)
(* unsupported extension.  The extraction and the embedding of any chunks  *)
(* may fail, and the caller's metadata may use the keys of the chunk       *)
(* metadata.                                                               *)
(***************************************************************************)
\* a path whose extension no extractor handles
PathU == Path("a", "x", ".xyz")

PathsDP == {PathX, PathU}

FilesDP == {NoFile, File("empty", 0), File("blank", 0), File("doc", 0)}

MetasDP ==
    {NoneMeta, Dict(<<1>>), DictOfKind(<<KeyPosition>>, "zero"),
     DictOfKind(<<KeyTotalChunks>>, "zero")}

InitDP ==
    /\ \E p \in PathsDP : fs \in [{p} -> FilesDP]
    /\ use_cache = FALSE
    /\ cache = EmptyCache
    /\ store = <<>>
    /\ nextId = 1
    /\ issued = <<>>
    /\ last = [op |-> "init"]
    /\ budget = 2
    /\ calls = NoCalls
    /\ retriever = retriever_init(TRUE, FALSE, DefaultTopK)

NextDP ==
    \E p \in DOMAIN fs, metadata \in MetasDP, readFails \in BOOLEAN :
       \E embedded \in SUBSET (0 .. chunk_content(fs[p].content) - 1) :
          DpProcessDocument(p, metadata, readFails, embedded)

SpecDP == InitDP /\ [][NextDP]_vars

(***************************************************************************)
(* SpecChunk: the chunker alone, called once: on a text of up to           *)
(* MaxSentences sentences of up to MaxSentenceWords words each, whose j-th *)
(* word of the i-th sentence is <<i, j>>, or with the default sizes on the *)
(* example text, which the segmenter splits after any of its words.        *)
(***************************************************************************)
\* the sentences of a text whose i-th sentence has lens[i] words
Sentences(lens) == [i \in DOMAIN lens |-> [j \in 1 .. lens[i] |-> <<i, j>>]]

\* the texts: every sequence of sentence lengths
SentenceLengths == UNION {[1 .. n -> 1 .. MaxSentenceWords] : n \in 0 .. MaxSentences}

InitIdle ==
    /\ fs \in [Paths -> {NoFile}]
    /\ use_cache = FALSE
    /\ cache = EmptyCache
    /\ store = <<>>
    /\ nextId = 1
    /\ issued = <<>>
    /\ last = [op |-> "init"]
    /\ budget = 1
    /\ calls = NoCalls
    /\ retriever = retriever_init(TRUE, FALSE, DefaultTopK)

\* "Dr. Smith went home. He was tired. Then he slept.".split()
ExampleWords ==
    <<"Dr.", "Smith", "went", "home.", "He", "was", "tired.", "Then", "he", "slept.">>

\* the sentences of a text with these words when the segmenter ends a
\* sentence after the words at the positions `ends` and after the last word
SplitAt(words, ends) ==
    LET stops == SetToSortedSeq(ends \cup {Len(words)})
    IN  [r \in DOMAIN stops |->
            SubSeq(words, IF r = 1 THEN 1 ELSE stops[r - 1] + 1, stops[r])]

NextChunk ==
    \/ \E lens \in SentenceLengths, chunk_size \in 1 .. MaxChunkSize,
          overlap \in 0 .. MaxOverlap :
          ChunkContent(Sentences(lens), chunk_size, overlap)
    \/ \E ends \in SUBSET (1 .. Len(ExampleWords) - 1) :
          ChunkContent(SplitAt(ExampleWords, ends), DefaultChunkSize, DefaultOverlap)

SpecChunk == InitIdle /\ [][NextChunk]_vars

(***************************************************************************)
(* SpecSent: split_into_sentences alone, called once on a text of up to    *)
(* MaxTokens tokens separated by spaces or by newlines.                    *)
(***************************************************************************)
\* the tokens of the texts: Dr., Mr., etc., e.g., Go!, He, ok?, home.
Tokens ==
    {<<"D", "r", ".">>,
     <<"M", "r", ".">>,
     <<"e", "t", "c", ".">>,
     <<"e", ".", "g", ".">>,
     <<"G", "o", "!">>,
     <<"H", "e">>,
     <<"o", "k", "?">>,
     <<"h", "o", "m", "e", ".">>}

RECURSIVE Join(_, _)
\* separator.join(tokens)
Join(tokens, separator) ==
    IF tokens = <<>> THEN <<>>
    ELSE IF Len(tokens) = 1 THEN Head(tokens)
    ELSE Head(tokens) \o <<separator>> \o Join(Tail(tokens), separator)

Texts ==
    {Join(tokens, separator) :
        tokens \in UNION {[1 .. n -> Tokens] : n \in 0 .. MaxTokens},
        separator \in {" ", "\n"}}

NextSent == \E text \in Texts : SplitIntoSentences(text)

SpecSent == InitIdle /\ [][NextSent]_vars

(***************************************************************************)
(* SpecStale: the service with caching enabled over one unchanged          *)
(* document, with reset_vector_store and delete_document between the       *)
(* process_document calls.  The store operations may fail; the pipeline    *)
(* and the cache do not.                                                   *)
(***************************************************************************)
InitStale == InitService({File("doc", 0)}, {TRUE}, MaxCalls)

\* None and one dict
MetasStale == {NoneMeta, Dict(<<1>>)}

NextStale ==
    \/ \E p \in Paths, metadata \in MetasStale, force \in BOOLEAN :
          ProcessCached(p, metadata, force, "ok")
    \/ \E p \in Paths, metadata \in MetasStale, force \in BOOLEAN :
          ProcessPipeline(p, metadata, force, FALSE,
                          0 .. chunk_content(fs[p].content) - 1, {}, "ok")
    \/ \E failAt \in FailPoints : ResetVectorStore(failAt)
    \/ \E id \in Range(issued) \cup {UnknownId}, failAt \in FailPoints :
          DeleteDocument(id, failAt)

SpecStale == InitStale /\ [][NextStale]_vars

(***************************************************************************)
(* SpecAlias: the service with caching enabled over two files of the same  *)
(* name in two directories.  Each is one of two texts of the same size,    *)
(* written in the same second or a second later; nothing fails.            *)
(***************************************************************************)
\* the file named as PathX in another directory
PathB == Path("b", "x", ".txt")

PathsAlias == {PathX, PathB}

FilesAlias == {File("doc", 0), File("alt", 1), File("doc", TicksPerSecond)}

\* None, the empty dict and one dict
MetasAlias == {NoneMeta, Dict(<<>>), Dict(<<1>>)}

InitAlias ==
    /\ fs \in [PathsAlias -> FilesAlias]
    /\ use_cache = TRUE
    /\ cache = EmptyCache
    /\ store = <<>>
    /\ nextId = 1
    /\ issued = <<>>
    /\ last = [op |-> "init"]
    /\ budget = MaxCalls
    /\ calls = NoCalls
    /\ retriever = retriever_init(TRUE, FALSE, DefaultTopK)

NextAlias ==
    \/ \E p \in PathsAlias, metadata \in MetasAlias, force \in BOOLEAN :
          ProcessCached(p, metadata, force, "ok")
    \/ \E p \in PathsAlias, metadata \in MetasAlias, force \in BOOLEAN :
          ProcessPipeline(p, metadata, force, FALSE,
                          0 .. chunk_content(fs[p].content) - 1, {}, "ok")

SpecAlias == InitAlias /\ [][NextAlias]_vars

(***************************************************************************)
(* SpecRace: process_document calls of several callers that run at the     *)
(* same time on one file that is absent or a document.  A call is four     *)
(* steps (the cache check, the pipeline with the store write, the opening  *)
(* of the cache file, the dump) and the steps of the calls interleave in   *)
(* every order; nothing fails.                                             *)
(***************************************************************************)
FilesRace == {NoFile, File("doc", 0)}

\* None, the empty dict (the same fingerprint) and one dict
MetasRace == {NoneMeta, Dict(<<>>), Dict(<<1>>)}

InitRace == InitService(FilesRace, BOOLEAN, MaxCallers)

NextRace ==
    \/ \E c \in Callers, p \in Paths, metadata \in MetasRace, force \in BOOLEAN :
          CheckCache(c, p, metadata, force)
    \/ \E c \in Callers : RunPipeline(c)
    \/ \E c \in Callers : OpenCacheFile(c)
    \/ \E c \in Callers : DumpResult(c)

SpecRace == InitRace /\ [][NextRace]_vars

(***************************************************************************)
(* Properties of the processing cache.                                     *)
(***************************************************************************)
\* this step is a process_document call (`last'` is its record)
ProcessStep == budget' = budget - 1 /\ last'.op = "process_document"

\* this step is a clear_cache call
ClearStep == budget' = budget - 1 /\ last'.op = "clear_cache"

\* the key of the file at p, as it is before the step
KeyNow(p, metadata) == generate_cache_key(p, fs[p], metadata)

\* the records the step appended to the collection
NewRecords == SubSeq(store', Len(store) + 1, Len(store'))

\* two consecutive process_document calls with force_reprocess=false on the
\* same unchanged file with the same metadata, with caching enabled; both
\* return
TwoCalls ==
    /\ ProcessStep
    /\ last.op = "process_document"
    /\ last.outcome = "returned" /\ last'.outcome = "returned"
    /\ ~last.force /\ ~last'.force
    /\ use_cache
    /\ last'.path = last.path
    /\ last'.file = last.file
    /\ DictEq(OrEmpty(last'.meta), OrEmpty(last.meta))

\* C1 as stated: the two calls return equal results.
C1_Original == [][TwoCalls => last'.result = last.result]_vars

\* C1, amended: the second call is served from the cache, whose entry is the
\* JSON text of what the first call returned, and returns what json.load
\* reads from it: the two results have the same JSON text, and are equal
\* when every value of the metadata is a JSON value.
C1_Idempotent ==
    [][TwoCalls
       => (/\ last'.branch = "cached"
           /\ cache[last.key] = json_dump(last.result)
           /\ last'.result = cache[last.key].value
           /\ json_dump(last'.result) = json_dump(last.result)
           /\ JsonItems(Range(last.meta.items)) = Range(last.meta.items)
                 => last'.result = last.result)]_vars

\* a call returned, from the cache, a result with stored chunks that an
\* earlier call had computed for a metadata with a tuple value
C1_Witness ==
    /\ last.op = "process_document"
    /\ last.branch = "cached" /\ last.outcome = "returned" /\ ~last.force
    /\ \E it \in Range(last.meta.items) : it[2] = "tuple"
    /\ last.result.status = "success"
    /\ Len(last.result.document_ids) > 0

\* C2 as stated: whenever force_reprocess is false and a readable entry
\* exists for the fingerprint, the call is served from the cache and leaves
\* the vector store and the cache as they were (use_cache is not mentioned).
C2_Original ==
    [][\A p \in Paths, m \in Metas :
          (/\ ProcessStep
           /\ last'.path = p /\ last'.meta = m /\ ~last'.force
           /\ fs[p].exists
           /\ KeyNow(p, m) \in DOMAIN cache
           /\ ~cache[KeyNow(p, m)].corrupt
           /\ ~(last'.branch = "cached" /\ last'.outcome = "raised"))
          => (/\ last'.branch = "cached"
              /\ last'.result = cache[KeyNow(p, m)].value
              /\ store' = store
              /\ cache' = cache)]_vars

\* C2, amended: with caching enabled, a call with force_reprocess=false for
\* whose fingerprint an entry exists does not run the pipeline: the vector
\* store and every cache entry are unchanged, no id is drawn, and the call
\* returns the entry as it is if it can be read (and raises if it cannot).
C2_CachedFrame ==
    [][\A p \in Paths, m \in Metas :
          (/\ ProcessStep
           /\ last'.path = p /\ last'.meta = m /\ ~last'.force
           /\ fs[p].exists
           /\ use_cache
           /\ KeyNow(p, m) \in DOMAIN cache)
          => (/\ last'.branch = "cached"
              /\ store' = store /\ cache' = cache /\ nextId' = nextId
              /\ count_documents(store') = count_documents(store)
              /\ cache[KeyNow(p, m)].corrupt => last'.outcome = "raised"
              /\ last'.outcome = "returned" =>
                    /\ ~cache[KeyNow(p, m)].corrupt
                    /\ last'.result = cache[KeyNow(p, m)].value)]_vars

\* a call was served from the cache while the store holds records
C2_Witness ==
    /\ last.op = "process_document"
    /\ last.branch = "cached" /\ last.outcome = "returned"
    /\ use_cache
    /\ count_documents(store) > 0
    /\ last.key \in DOMAIN cache

\* the metadata of two calls differ (None and {} are the same metadata)
MetaChanged(m1, m2) == ~DictEq(OrEmpty(m1), OrEmpty(m2))

\* the file of the call c2 differs from the file of the call c1 in its size
\* or by at least one whole second in its mtime
FileChanged(c1, c2) ==
    \/ Size(c1.file.content) # Size(c2.file.content)
    \/ c2.file.mtime - c1.file.mtime >= TicksPerSecond
    \/ c1.file.mtime - c2.file.mtime >= TicksPerSecond

C4_NoFailedEntry ==
    \A k \in DOMAIN cache : ~cache[k].corrupt => cache[k].value.status # "failed"

C6_CacheErrorNotFatal ==
    (last.op = "process_document" /\ last.branch # "not_found")
       => last.outcome = "returned"

\* C7: clear_cache never raises; every entry whose delete did not fail is
\* gone and the others are as they were; after a clear_cache that listed the
\* directory and in which no delete failed the cache is empty, so that no
\* process_document call is served from it.
C7_ClearCache ==
    [][ClearStep
       => (/\ last'.outcome = "returned"
           /\ store' = store
           /\ last'.ret =>
                 /\ DOMAIN cache' = last'.undeleted
                 /\ \A k \in last'.undeleted : cache'[k] = cache[k]
                 /\ last'.deleted = DOMAIN cache \ last'.undeleted
           /\ (last'.ret /\ last'.undeleted = {}) =>
                 /\ cache' = EmptyCache
                 /\ \A p \in Paths, m \in Metas : ~(CacheHit(p, m, FALSE))')]_vars

\* a clear_cache deleted an entry although the delete of another one failed
C7_Witness ==
    /\ last.op = "clear_cache"
    /\ last.ret
    /\ last.undeleted # {} /\ last.deleted # {}
    /\ DOMAIN cache = last.undeleted

\* a step that is a direct add_documents call
AddStep == budget' = budget - 1 /\ last'.op = "add_documents"

\* the documents (by number) of batch b of a call with n documents
DocsOfBatch(n, batch_size, b) == {i \in 1 .. n : BatchOf(i, batch_size) = b}

\* C8: add_documents writes its input in batches with no global rollback.
\* Whatever batches fail (their write raises, or the embedding of one of
\* their documents raises), the store keeps what it held, gains the records
\* of exactly the documents of the other batches in input order, the
\* returned list is the ids of these new records in that order, and
\* count_documents() grows by the length of the returned list.
C8_BatchesNoRollback ==
    [][AddStep =>
          LET n == last'.n
              failed == last'.addFailed \cup last'.embedFailed
              keptDocs == SetToSortedSeq(
                             {i \in 1 .. n : BatchOf(i, last'.batch_size) \notin failed})
          IN  /\ Len(store') >= Len(store)
              /\ SubSeq(store', 1, Len(store)) = store
              /\ [k \in 1 .. Len(NewRecords) |-> NewRecords[k].text] = keptDocs
              /\ last'.ids = [k \in 1 .. Len(NewRecords) |-> NewRecords[k].id]
              /\ count_documents(store') = count_documents(store) + Len(last'.ids)]_vars

\* a call of three batches whose second batch failed: the first and the
\* third are stored next to the records of an earlier call
C8_Witness ==
    /\ last.op = "add_documents"
    /\ NumBatches(last.n, last.batch_size) = 3
    /\ last.addFailed \cup last.embedFailed = {2}
    /\ last.count_before > 0
    /\ Len(last.ids) = last.n - last.batch_size
    /\ count_documents(store) = last.count_before + Len(last.ids)

\* C9 as the specification states it: when the embedding of 1 of the 10
\* documents of one batch fails and nothing else does, add_documents returns
\* 9 ids and count_documents() grows by 9.
C9_Original ==
    [][(/\ AddStep
        /\ last'.n = 10
        /\ NumBatches(last'.n, last'.batch_size) = 1
        /\ last'.embedFailed = {1}
        /\ last'.addFailed = {})
       => /\ Len(last'.ids) = 9
          /\ count_documents(store') = count_documents(store) + 9]_vars

\* C9: when the embedding of one document of a batch fails, collection.add
\* raises for the whole batch: no document of that batch is stored and no id
\* of that batch is returned.  If no write fails in another batch, the
\* returned ids and the growth of count_documents() are the number of
\* documents outside that batch: 0 for 10 documents in one batch.
C9_BatchSkipped ==
    [][(AddStep /\ last'.embedFailed # {})
       => \A b \in last'.embedFailed :
             LET skipped == DocsOfBatch(last'.n, last'.batch_size, b)
             IN  /\ \A k \in 1 .. Len(NewRecords) : NewRecords[k].text \notin skipped
                 /\ Len(last'.ids) <= last'.n - Cardinality(skipped)
                 /\ last'.addFailed \subseteq {b}
                       => /\ Len(last'.ids) = last'.n - Cardinality(skipped)
                          /\ count_documents(store') =
                                count_documents(store) + last'.n - Cardinality(skipped)]_vars

\* 10 documents in one batch, the embedding of one of them failed: nothing
\* was returned and the count did not move
C9_Witness ==
    /\ last.op = "add_documents"
    /\ last.n = 10
    /\ NumBatches(last.n, last.batch_size) = 1
    /\ last.embedFailed = {1}
    /\ last.addFailed = {}
    /\ last.ids = <<>>
    /\ count_documents(store) = last.count_before

\* C10: ids are assigned by the store and are unique.  No two records of the
\* store share an id, no id was returned twice by add_documents (in one call
\* or in two), and the id of a record is not the id its caller supplied.
C10_UniqueIds ==
    /\ \A i, j \in 1 .. Len(store) : i # j => store[i].id # store[j].id
    /\ \A i, j \in 1 .. Len(issued) : i # j => issued[i] # issued[j]
    /\ \A i \in 1 .. Len(store) : store[i].id # <<"caller", store[i].text>>

\* the same document was added by two calls and is stored twice
C10_Witness ==
    /\ last.op = "add_documents"
    /\ last.count_before > 0
    /\ \E i, j \in 1 .. Len(store) :
          /\ i <= last.count_before
          /\ j > last.count_before
          /\ store[i].text = store[j].text

(***************************************************************************)
(* Properties of the vector store and the retriever.                       *)
(***************************************************************************)
\* this step is a call of the store or the retriever (`last'` is its record)
CallStep(op) == budget' = budget - 1 /\ last'.op = op

\* the value the store's operation op returns when the backend raised
ReturnsOnError(op, ret) ==
    CASE op = "search" -> ret = EmptySearch
      [] op = "get_document" -> ret = NoDocument
      [] op \in {"delete_documents", "update_document", "clear_collection"} -> ret = FALSE
      [] op = "count_documents" -> ret = 0
      [] op = "retrieve" -> ret = <<>>

\* C11: a call of search, get_document, delete_documents, update_document,
\* clear_collection or count_documents during which the backend raises
\* returns (an empty result, None, False, False, False, 0), and a
\* Retriever.retrieve whose search fails returns the empty list.
C11_StoreErrorsContained ==
    [][\A op \in {"search", "get_document", "delete_documents", "update_document",
                  "clear_collection", "count_documents", "retrieve"} :
          (CallStep(op) /\ last'.storeFails) =>
              /\ last'.outcome = "returned"
              /\ ReturnsOnError(op, last'.ret)]_vars

\* a retrieve over a store that holds documents returned the empty list
\* because the backend raised
C11_Witness ==
    /\ last.op = "retrieve" /\ last.storeFails
    /\ store # <<>>
    /\ last.outcome = "returned" /\ last.ret = <<>>

\* the stored record a returned candidate was made of (the metadata of the
\* i-th record of the searched store carries i)
RecordOf(metadata) == store[metadata.key]

\* C12 as stated: what VectorStore.search returns for a hit is the
\* similarity 1 - d/2 of its cosine distance d, never the distance.
C12_Original ==
    [][(CallStep("search") /\ ~last'.storeFails) =>
          \A k \in DOMAIN last'.ret.distances :
             last'.ret.distances[k]
                = Similarity(QueryDistance(RecordOf(last'.ret.metadatas[k])))]_vars

\* C12: VectorStore.search returns the distance d of every hit as the
\* backend computed it; the Retriever makes the conversion: every result of
\* a retrieve on the vector path has score = 1 - d/2 for the distance d of
\* its document.
C12_RetrieverConverts ==
    [][/\ (CallStep("search") /\ ~last'.storeFails) =>
             \A k \in DOMAIN last'.ret.distances :
                last'.ret.distances[k] = QueryDistance(RecordOf(last'.ret.metadatas[k]))
       /\ (CallStep("retrieve") /\ last'.path = "vector") =>
             \A k \in DOMAIN last'.ret :
                last'.ret[k].score
                   = Similarity(QueryDistance(RecordOf(last'.ret[k].metadata)))]_vars

\* a retrieve on the vector path returned a document at distance 1.0 of the
\* query with score 0.5
C12_Witness ==
    /\ last.op = "retrieve" /\ last.path = "vector" /\ last.outcome = "returned"
    /\ \E k \in DOMAIN last.ret :
          QueryDistance(RecordOf(last.ret[k].metadata)) = 10 /\ last.ret[k].score = 5

\* the score a returned list is ordered by: combined_score of a reranked
\* result, the vector score of a result of the vector path
RankingScore(item) ==
    IF "combined_score" \in DOMAIN item THEN item.combined_score ELSE item.score

\* C13: along every list Retriever.retrieve returns the score is
\* non-increasing, whatever order the store returned the candidates in.
C13_NonIncreasing ==
    [][(CallStep("retrieve") /\ last'.outcome = "returned") =>
          \A k \in 1 .. Len(last'.ret) - 1 :
             RankingScore(last'.ret[k]) >= RankingScore(last'.ret[k + 1])]_vars

\* C14: a Retriever.retrieve or RAGService.search call with a requested
\* count n_results >= 0 returns a list of at most n_results elements.
C14_AtMostRequested ==
    [][\A op \in {"retrieve", "service_search"} :
          (CallStep(op) /\ last'.n >= 0 /\ last'.outcome = "returned") =>
              Len(last'.ret) <= last'.n]_vars

\* C15: a retrieve with reranking enabled, a loaded cross-encoder whose
\* predict returns, and at least one candidate returns min(n_results,
\* candidates) results, each with combined_score = 0.4 * vector_score + 0.6
\* * cross_encoder_score, in non-increasing order of combined_score.
C15_Reranked ==
    [][(CallStep("retrieve") /\ last'.path = "rerank" /\ ~last'.predictFails) =>
          /\ last'.outcome = "returned"
          /\ LET found == Len(collection_query(store, retriever.retrieval_top_k,
                                               last'.byDistance))
             IN  Len(last'.ret) = IF last'.n < found THEN last'.n ELSE found
          /\ \A k \in DOMAIN last'.ret :
                last'.ret[k].combined_score
                   = last'.ret[k].vector_score * VectorWeight
                        + last'.ret[k].cross_encoder_score * RerankWeight
          /\ \A k \in 1 .. Len(last'.ret) - 1 :
                last'.ret[k].combined_score >= last'.ret[k + 1].combined_score]_vars

\* C16: a construction during which the cross-encoder fails to load
\* returns, with the warning logged and reranking disabled; and a retriever
\* that logged the warning keeps use_reranking false and cross_encoder None
\* through every call, and none of its retrieve calls takes the rerank path.
C16_FailOpen ==
    [][/\ (last'.op = "retriever_init" /\ last.op = "init" /\ last'.loadFails) =>
             /\ last'.outcome = "returned"
             /\ retriever'.warned
       /\ retriever'.warned =>
             ~retriever'.use_reranking /\ retriever'.cross_encoder = "none"
       /\ retriever.warned => retriever' = retriever
       /\ \A op \in {"retrieve", "service_search"} :
             (CallStep(op) /\ retriever.warned) => last'.path # "rerank"]_vars

\* a retriever whose cross-encoder failed to load answered a retrieve over
\* a store with documents on the vector path
C16_Witness ==
    /\ retriever.warned
    /\ last.op = "retrieve" /\ last.path = "vector"
    /\ last.outcome = "returned" /\ last.ret # <<>>

\* C17: get_similar_documents(document_id, n) with a working backend
\* returns; for a stored document_id the list has at most n results, none
\* of them the source document, and for a document_id that is not stored
\* the list is empty.
C17_SimilarDocuments ==
    [][(CallStep("get_similar_documents") /\ ~last'.storeFails) =>
          /\ last'.outcome = "returned"
          /\ Len(last'.ret) <= last'.n
          /\ \A k \in DOMAIN last'.ret : last'.ret[k].id # last'.id
          /\ last'.id \notin Range(issued) => last'.ret = <<>>]_vars

(***************************************************************************)
(* Properties of the document processor.                                   *)
(***************************************************************************)
\* this step is a DocumentProcessor.process_document call
DpStep == budget' = budget - 1 /\ last'.op = "dp_process_document"

\* the raw chunks of the document of the call recorded in l
RawChunks(l) ==
    IF l.file.exists /\ ExtractOk(l.path, l.file, l.readFails)
    THEN chunk_content(l.file.content) ELSE 0

\* C18: when the embedding fails for some but not all chunks of a
\* document, the call returns the chunks whose embedding succeeded, fewer
\* than the raw chunks, with status 'partial'.
C18_PartialOnSkippedChunks ==
    [][(/\ DpStep
        /\ last'.embedded # {}
        /\ Cardinality(last'.embedded) < RawChunks(last')) =>
          /\ last'.outcome = "returned"
          /\ Len(last'.result.chunks) = Cardinality(last'.embedded)
          /\ Len(last'.result.chunks) < RawChunks(last')
          /\ last'.result.status = "partial"]_vars

\* the call recorded in l met a fatal error after the file was found: an
\* unsupported extension, an extraction that raised, or no content
FatalInTry(l) ==
    /\ l.file.exists
    /\ l.path.ext \notin SupportedExtensions \/ l.readFails \/ l.file.content = "empty"

\* the result r is a failure: status 'failed', an error string, no chunks
FailedResult(r) == r.status = "failed" /\ r.error /\ r.chunks = <<>>

C20_PositionsDistinct ==
    [][(DpStep /\ last'.outcome = "returned") =>
          LET chunks == last'.result.chunks
          IN  /\ \A j, k \in DOMAIN chunks :
                    j # k => chunks[j].metadata.position # chunks[k].metadata.position
              /\ \A k \in DOMAIN chunks :
                    chunks[k].metadata.position < chunks[k].metadata.total_chunks]_vars

(***************************************************************************)
(* Properties of the chunker.                                              *)
(***************************************************************************)
\* the number of leading words of the k-th chunk of the call recorded in l
\* that the chunk before it holds as well: its leading overlap
LeadingOverlap(l, k) ==
    IF k = 1 THEN 0
    ELSE Cardinality(Range(l.chunks[k].text) \cap Range(l.chunks[k - 1].text))

\* the text of the k-th chunk with its leading overlap removed
WithoutOverlap(l, k) ==
    SubSeq(l.chunks[k].text, LeadingOverlap(l, k) + 1, Len(l.chunks[k].text))

\* the words of all sentences of a text
TotalWords(sentences) == Len(Flatten(sentences))

\* C21: for a text of more than chunk_size words, the words a chunk
\* shares with the chunk before it are its first words, the chunk texts
\* without these overlaps concatenated are the sentences of the text in
\* order, and every sentence lies whole in one chunk, also a sentence of
\* more than chunk_size words.
C21_ChunkCoverage ==
    (last.op = "chunk_content" /\ TotalWords(last.sentences) > last.chunk_size) =>
        /\ \A k \in DOMAIN last.chunks :
              k > 1 => Range(SubSeq(last.chunks[k].text, 1, LeadingOverlap(last, k)))
                          \subseteq Range(last.chunks[k - 1].text)
        /\ Flatten([k \in DOMAIN last.chunks |-> WithoutOverlap(last, k)])
              = Flatten(last.sentences)
        /\ \A i \in DOMAIN last.sentences : \E k \in DOMAIN last.chunks :
              \E from \in 1 .. Len(WithoutOverlap(last, k)) - Len(last.sentences[i]) + 1 :
                 SubSeq(WithoutOverlap(last, k), from, from + Len(last.sentences[i]) - 1)
                    = last.sentences[i]

\* a text with a sentence of more than chunk_size words was chunked into
\* several chunks, one of them with an overlap
C21_Witness ==
    /\ last.op = "chunk_content"
    /\ \E i \in DOMAIN last.sentences : Len(last.sentences[i]) > last.chunk_size
    /\ \E k \in DOMAIN last.chunks : LeadingOverlap(last, k) > 0
    /\ Len(last.chunks) = Len(last.sentences)

\* the word count of the longest sentence of a text
LongestSentence(sentences) ==
    IF sentences = <<>> THEN 0
    ELSE CHOOSE n \in {Len(sentences[i]) : i \in DOMAIN sentences} :
            \A i \in DOMAIN sentences : Len(sentences[i]) <= n

\* the chunk holds a sentence of more than chunk_size words
HoldsOversized(l, k) ==
    \E i \in DOMAIN l.sentences :
       /\ Len(l.sentences[i]) > l.chunk_size
       /\ Range(l.sentences[i]) \subseteq Range(l.chunks[k].text)

\* C22: every chunk that holds no sentence of more than chunk_size words
\* has word_count <= chunk_size + the word count of the longest sentence.
C22_SoftBound ==
    last.op = "chunk_content" =>
        \A k \in DOMAIN last.chunks :
           ~HoldsOversized(last, k) =>
               last.chunks[k].metadata.word_count
                  <= last.chunk_size + LongestSentence(last.sentences)

\* the call recorded in l chunked the example text with chunk_size 1000
ExampleCall(l) ==
    /\ l.op = "chunk_content"
    /\ l.chunk_size = DefaultChunkSize
    /\ Flatten(l.sentences) = ExampleWords

\* C23 as stated: the example text with chunk_size 1000 gives one chunk
\* with word_count 9.
C23_Original ==
    ExampleCall(last) =>
        Len(last.chunks) = 1 /\ last.chunks[1].metadata.word_count = 9

\* C23: a text with at least one sentence whose sentences together have at
\* most chunk_size words gives exactly one chunk; its text is the sentences
\* in order and its word_count the number of words of the text.  For the
\* example text and chunk_size 1000 this word_count is 10, wherever the
\* segmenter ends the sentences.
C23_OneChunk ==
    /\ (/\ last.op = "chunk_content"
        /\ last.sentences # <<>>
        /\ TotalWords(last.sentences) <= last.chunk_size) =>
           /\ Len(last.chunks) = 1
           /\ last.chunks[1].text = Flatten(last.sentences)
           /\ last.chunks[1].metadata.word_count = Len(last.chunks[1].text)
    /\ ExampleCall(last) =>
           Len(last.chunks) = 1 /\ last.chunks[1].metadata.word_count = 10

\* the example text, in its three sentences, gave one chunk of 10 words
C23_Witness ==
    /\ ExampleCall(last)
    /\ last.sentences = SplitAt(ExampleWords, {4, 7})
    /\ Len(last.chunks) = 1
    /\ last.chunks[1].text = ExampleWords
    /\ last.chunks[1].metadata.word_count = 10

\* the last n words of a sequence of words (all of them when it has fewer)
LastWords(words, n) ==
    IF n >= Len(words) THEN words ELSE SubSeq(words, Len(words) - n + 1, Len(words))

\* min(overlap, word_count) for the chunk closed before the k-th chunk
OverlapDue(l, k) ==
    IF l.overlap < l.chunks[k - 1].metadata.word_count
    THEN l.overlap ELSE l.chunks[k - 1].metadata.word_count

\* C24: every chunk after the first starts with exactly the last
\* min(overlap, word_count) words of the chunk closed before it, and its
\* word count is that number plus the words of the sentences appended to it.
C24_OverlapSeed ==
    last.op = "chunk_content" =>
        \A k \in DOMAIN last.chunks :
           k > 1 =>
              /\ LeadingOverlap(last, k) = OverlapDue(last, k)
              /\ SubSeq(last.chunks[k].text, 1, LeadingOverlap(last, k))
                    = LastWords(last.chunks[k - 1].text, OverlapDue(last, k))
              /\ last.chunks[k].metadata.word_count
                    = OverlapDue(last, k) + Len(WithoutOverlap(last, k))

(***************************************************************************)
(* More properties of the retriever.                                       *)
(***************************************************************************)
\* C25: in every retrieve call the number of candidates requested from the
\* store (retrieval_top_k) is greater than n_results, and a call on the
\* vector path over a store that holds at least n_results records returns
\* n_results of them.
C25_PoolExceedsRequest ==
    [][(CallStep("retrieve") /\ ~last'.storeFails) =>
          /\ retriever.retrieval_top_k > last'.n
          /\ (last'.path = "vector" /\ Len(store) >= last'.n) =>
                Len(last'.ret) = last'.n]_vars

(***************************************************************************)
(* Properties of split_into_sentences.                                     *)
(***************************************************************************)
\* the word without its last character
WithoutLast(word) == SubSeq(word, 1, Len(word) - 1)

\* the word ends a sentence as the sentence-boundary policy has it: it
\* ends in '.', '!' or '?' and neither matches a known abbreviation
\* case-insensitively (as 'Dr.' matches 'dr') nor starts with a lowercase
\* letter and ends in '.'
EndsSentence(word) ==
    /\ word[Len(word)] \in SentencePunctuation
    /\ Lower(word) \notin abbreviations
    /\ Lower(WithoutLast(word)) \notin abbreviations
    /\ ~(IsLower(word[1]) /\ word[Len(word)] = ".")

\* C26: the sentences split_into_sentences returns are the words of the
\* text in order, cut after exactly the words that end a sentence: a word
\* within a sentence does not end a sentence, and the last word of every
\* sentence but the last one does.
C26_SentenceBoundaries ==
    last.op = "split_into_sentences" =>
        /\ Flatten(last.sentences) = words_of(last.text)
        /\ \A i \in DOMAIN last.sentences :
              /\ last.sentences[i] # <<>>
              /\ \A j \in 1 .. Len(last.sentences[i]) - 1 :
                    ~EndsSentence(last.sentences[i][j])
              /\ i < Len(last.sentences) =>
                    EndsSentence(last.sentences[i][Len(last.sentences[i])])

(***************************************************************************)
(* More properties of the service.                                         *)
(***************************************************************************)
\* C27: every process_document call that runs the pipeline keeps every
\* record the store held and appends one record under a fresh id for every
\* chunk the store accepted: the new records carry the texts of chunks of
\* the run, count_documents() grows by their number, and when the call
\* returns their ids are the document_ids of its result.
C27_RerunDuplicates ==
    [][(ProcessStep /\ last'.branch = "pipeline") =>
          /\ Len(store') >= Len(store)
          /\ SubSeq(store', 1, Len(store)) = store
          /\ \A i \in DOMAIN NewRecords : \A j \in DOMAIN store :
                NewRecords[i].id # store[j].id
          /\ last'.outcome = "returned" =>
                /\ count_documents(store')
                      = count_documents(store) + Len(last'.result.document_ids)
                /\ \A i \in DOMAIN NewRecords :
                      /\ NewRecords[i].id = last'.result.document_ids[i]
                      /\ \E k \in DOMAIN last'.result.chunks :
                            NewRecords[i].text = last'.result.chunks[k].text]_vars

\* a run of the pipeline on a file whose chunks the store already held left
\* every chunk in the store twice, under different ids
C27_Witness ==
    /\ last.op = "process_document" /\ last.branch = "pipeline"
    /\ last.outcome = "returned"
    /\ Len(last.result.chunks) > 0
    /\ Len(last.result.document_ids) = Len(last.result.chunks)
    /\ count_documents(store) = 2 * Len(last.result.chunks)
    /\ \A k \in DOMAIN last.result.chunks :
          Cardinality({store[i].id : i \in {j \in DOMAIN store :
                          store[j].text = last.result.chunks[k].text}}) = 2

\* the ids of the records of the store
StoredIds(coll) == {coll[i].id : i \in DOMAIN coll}

\* C28: reset_vector_store and delete_document change no cache entry; and
\* a process_document call with force_reprocess=false for whose fingerprint
\* an entry exists returns the result of the entry and leaves the store as
\* it is, whether or not the document_ids of the entry are still stored.
C28_StoreResetKeepsCache ==
    [][/\ \A op \in {"reset_vector_store", "delete_document"} :
             CallStep(op) => cache' = cache
       /\ \A p \in Paths, m \in Metas :
             (/\ ProcessStep
              /\ last'.path = p /\ last'.meta = m /\ ~last'.force
              /\ use_cache /\ fs[p].exists
              /\ KeyNow(p, m) \in DOMAIN cache) =>
                 /\ last'.branch = "cached"
                 /\ last'.outcome = "returned" => last'.result = cache[KeyNow(p, m)].value
                 /\ store' = store
                 /\ count_documents(store') = count_documents(store)]_vars

\* after the store was reset, a call returned the cached result of an
\* earlier run, none of whose document_ids is in the store
C28_Witness ==
    /\ last.op = "process_document" /\ last.branch = "cached"
    /\ last.outcome = "returned"
    /\ last.result.document_ids # <<>>
    /\ Range(last.result.document_ids) \cap StoredIds(store) = {}
    /\ cache[last.key].value = last.result

\* the file of the call of this step and the file of the call before it are
\* two files (another path or another content) that agree on the base name,
\* the size, the mtime in whole seconds and the metadata (None as {})
SameFingerprint ==
    /\ last.path # last'.path \/ last.file.content # last'.file.content
    /\ FileName(last.path) = FileName(last'.path)
    /\ Size(last.file.content) = Size(last'.file.content)
    /\ IntMtime(last.file) = IntMtime(last'.file)
    /\ OrEmpty(last.meta) = OrEmpty(last'.meta)

\* C29: the fingerprint neither reads the directory nor the content: when a
\* pipeline run has returned for one file, a non-forced process_document
\* call for a different file with the same base name, size, mtime in whole
\* seconds and metadata (None and {} alike) returns the result cached for
\* the first file and processes nothing
C29_FingerprintAliases ==
    [][(/\ ProcessStep
        /\ last.op = "process_document"
        /\ last.branch = "pipeline" /\ last.outcome = "returned"
        /\ ~last'.force
        /\ SameFingerprint)
       => /\ last'.branch = "cached" /\ last'.outcome = "returned"
          /\ last'.result = JsonResult(last.result)
          /\ store' = store /\ cache' = cache /\ nextId' = nextId]_vars

\* a call has returned the cached result of a file in another directory
\* with another content
C29_Witness ==
    /\ last.op = "process_document"
    /\ last.branch = "cached" /\ last.outcome = "returned"
    /\ last.result.metadata.file.file_id # last.path
    /\ last.result.chunks # <<>>
    /\ \A k \in DOMAIN last.result.chunks :
          last.result.chunks[k].text[1] # last.file.content
\* the two callers have both found no entry under the same fingerprint in
\* unforced calls, have both run the pipeline and have both returned
BothMissed(c, d) ==
    /\ c # d
    /\ use_cache
    /\ calls[c].pc = "done" /\ calls[d].pc = "done"
    /\ calls[c].branch = "pipeline" /\ calls[d].branch = "pipeline"
    /\ ~calls[c].force /\ ~calls[d].force
    /\ calls[c].key = calls[d].key

\* the callers whose pipeline has added its chunks to the store
Adders == {e \in Callers : calls[e].branch = "pipeline" /\ calls[e].pc # "missed"}

\* the records of the collection that hold the text of the chunk
RecordsOfChunk(chunk) == {i \in DOMAIN store : store[i].text = chunk.text}

====
